---- MODULE Spec2Model ----
(***************************************************************************)
(* State-machine model of the SASEUL pool clients.                         *)
(*                                                                         *)
(*   Spec         pool_miner.py: mine_with_pool (supervisory loop and      *)
(*                Mining Loop, one thread), StratumClient.recv_thread      *)
(*                (Receiver Loop, second thread), the pool and the         *)
(*                accelerator as environment.                              *)
(*   FairSpec     Spec with the fairness the thread scheduler and the      *)
(*                socket timeouts give.                                    *)
(*   SpecBackoff  pool_miner.py: the connect / back-off part of the        *)
(*                supervisory loop over a long run of failed connects;     *)
(*                a session that got its connection is one step.           *)
(*   SpecSnapshot pool_miner.py: the Job Store (_handle_notify, get_job)   *)
(*                with Python's object references kept: dicts and the      *)
(*                lists they refer to, and a caller that changes the       *)
(*                snapshots it was handed.                                 *)
(*   SpecGpuPool  gpu_pool_miner.py: main and its one StratumClient.       *)
(*                                                                         *)
(* One pool message is one JSON line.  JSON values that the code only      *)
(* tests for truthiness are the strings "true", "false", "null", "one"     *)
(* (a non-boolean truthy value such as 1 or a non-empty list).             *)
(***************************************************************************)
EXTENDS Integers, Sequences, FiniteSets, TLC

\* ------------------------------------------------------------ bounds
MaxSessions == 2      \* StratumClient objects created by the supervisory loop
MaxWire == 2          \* unread pool lines in flight on one connection
MaxJobs == 2          \* mining.notify jobs the pool issues
MaxRounds == 2        \* mining rounds (accelerator calls)

\* ------------------------------------------------- program constants
RECONNECT_DELAY == 5
MAX_RECONNECT_DELAY == 60
AUTH_ATTEMPTS == 3
HEX_TIME_SIZE == 14

\* ------------------------------------------------------- JSON values
\* The result/error pairs of the replies the pool sends: accepted, refused,
\* an error reply, a truthy result that is not the boolean true, and a reply
\* with both a true result and an error.
ReplyBodies ==
  {<<"true", "null">>, <<"false", "null">>, <<"null", "err">>,
   <<"one", "null">>, <<"true", "err">>}

\* Python truthiness of a reply's result (line.get('result')).
Truthy(v) == v \in {"true", "one"}

\* The absent value (None).
Null == [none |-> TRUE]
\* No accelerator result yet.
Pending == [pending |-> TRUE]

\* The job the pool issues with serial n.  Odd jobs carry share_target,
\* even jobs do not (job.get('share_target', ...) has a default).
JobOf(n) ==
  IF n % 2 = 1
  THEN [job_id |-> n, height |-> 100 + n, difficulty |-> 1000,
        previous_blockhash |-> "p", share_target |-> "st"]
  ELSE [job_id |-> n, height |-> 100 + n, difficulty |-> 1000,
        previous_blockhash |-> "p"]

Reply(i, r, e) == [kind |-> "reply", id |-> i, result |-> r, error |-> e]
Notify(j) == [kind |-> "notify", params |-> j]

\* ------------------------------------------------------------- state
VARIABLES
  pc,               \* position of the main thread in mine_with_pool
  shutdown,         \* _shutdown
  session,          \* number of StratumClient objects created so far
  recv_alive,       \* the Receiver Loop thread of this client is alive
  \* the StratumClient object
  sock,             \* client.sock: "none", "unconnected", "open"
  connected,        \* client.connected
  running,          \* client.running
  msg_id,           \* client.msg_id
  current_job,      \* client.current_job (Null = None)
  \* the pool's side of the connection
  wire,             \* lines the pool has written and the client has not read
  peerClosed,       \* the pool has closed its end of the connection
  jobsIssued,       \* jobs the pool has issued so far
  requests,         \* requests written by the client, not yet answered
  \* locals of authorize() and mine_with_pool
  authorized,       \* authorize(): 'authorized'
  attempt,          \* authorize(): passes of the receive loop done
  job,              \* the round's snapshot 'job' (Null outside a round)
  resp,             \* the round's accelerator result 'resp' ("pending" before)
  last_job_id,      \* last_job_id (0 = None)
  timestamp,        \* the round's timestamp (0 outside a round)
  \* module globals and the status file
  reconnect_delay,  \* reconnect_delay, in 1/64 s
  total_hashes,     \* _total_hashes
  total_shares,     \* _total_shares
  total_blocks,     \* _total_blocks
  status_connected, \* pool_connected of the last write_status ("unset" at start)
  \* history (not read by the program)
  lastSentId,       \* id of the latest request written on this connection
  subRet,           \* what subscribe() returned on this client
  authRet,          \* what authorize() returned on this client
  jobsAtConnect,    \* jobsIssued when the current client was created
  rounds,           \* accelerator calls started so far
  roundsAtConnect,  \* rounds when the current client was created
  writeFailed,      \* a write on the current connection has failed
  \* the back-off wait of the supervisory loop
  slept,            \* one-second sleeps done in the current wait
  fails,            \* failed connects in a row
  waited,           \* one-second sleeps the last wait took
  \* Job Store objects (SpecSnapshot)
  heap,             \* the list objects: address -> items
  store,            \* the dict object current_job refers to (Null = None)
  snaps,            \* the dict objects get_job has handed out
  \* gpu_pool_miner (SpecGpuPool)
  gpc,              \* position of main
  conns,            \* stratum.connect() calls that succeeded
  stratum_msg_id,   \* stratum.msg_id
  stratum_job,      \* stratum.job (Null = None)
  shares_sent,      \* stratum.shares_sent
  shares_accepted,  \* stratum.shares_accepted
  gwire,            \* unread pool lines on stratum's current connection
  gclosed,          \* the pool has closed stratum's current connection
  gjobs,            \* jobs the pool has issued to stratum
  grequests,        \* stratum's requests the pool has not answered
  gjob,             \* main: the round's 'job' (Null outside a round)
  grounds,          \* accelerator calls of main so far
  jobConn,          \* history: the connection stratum.job was received on
  arr,              \* merkle_root: the argument 'arr'
  layer,            \* merkle_root: 'layer' (the result is layer[1] at the end)
  mpc,              \* position in merkle_root
  diff,             \* hash_limit: the argument
  limit_pool,       \* pool_miner.hash_limit(diff)
  limit_gpu,        \* gpu_pool_miner.hash_limit(diff)
  hpc               \* which of the two hash_limit calls have been made

clientVars == <<sock, connected, running, msg_id, current_job>>
poolVars == <<wire, peerClosed, jobsIssued, requests>>
localVars == <<authorized, attempt, job, resp, last_job_id, timestamp>>
globalVars == <<reconnect_delay, total_hashes, total_shares, total_blocks,
                status_connected>>
histVars == <<lastSentId, subRet, authRet, jobsAtConnect, rounds,
              roundsAtConnect, writeFailed>>

backoffVars == <<slept, fails, waited>>
heapVars == <<heap, store, snaps>>
gpuVars == <<gpc, conns, stratum_msg_id, stratum_job, shares_sent,
             shares_accepted, gwire, gclosed, gjobs, grequests, gjob,
             grounds, jobConn>>

minerVars == <<pc, shutdown, session, recv_alive, clientVars, poolVars,
               localVars, globalVars, histVars>>

pureVars == <<arr, layer, mpc, diff, limit_pool, limit_gpu, hpc>>

\* The accelerator client gpu_mine_round, call by call.
VARIABLES
  apc,              \* gpu_mine_round: position ("idle" between calls)
  aopen,            \* accelerator channels that are connected and not closed
  asent,            \* request lines sent in the current (or last) call
  abuf,             \* gpu_mine_round: 'buf' of the current (or last) call
  aret,             \* what the last call returned (Pending before the first)
  acalls            \* calls made so far

accelVars == <<apc, aopen, asent, abuf, aret, acalls>>

\* StratumClient._recv_lines on the byte stream of one connection.
VARIABLES
  fwire,            \* bytes the pool has sent and the client has not read
  fread,            \* history: the bytes the client has read, in order
  fbuf,             \* StratumClient.buf
  fyield,           \* history: the lists returned by _recv_lines, joined
  fjob,             \* StratumClient.current_job of this client
  fmined,           \* rounds the Mining Loop has started on this client
  fcrash            \* "none", or where an exception left its handler

frameVars == <<fwire, fread, fbuf, fyield, fjob, fmined, fcrash>>

\* The job lock between the thread that stores jobs and the Mining Loop.
VARIABLES
  job_lock,         \* StratumClient.job_lock: "none" or the thread holding it
  lk_recv,          \* the statement recv_thread's thread is at
  lk_main,          \* the statement the Mining Loop is at
  lk_job,           \* StratumClient.current_job (0: None)
  lk_snap,          \* the Mining Loop's 'job' (0: None)
  lk_n              \* mining.notify messages received

lockVars == <<job_lock, lk_recv, lk_main, lk_job, lk_snap, lk_n>>

\* The supervisory loop of mine_with_pool on a clock of whole seconds.
VARIABLES
  s_pc,             \* position of mine_with_pool
  s_shutdown,       \* _shutdown
  s_in,             \* mine_with_pool is inside a time.sleep call
  s_sleep,          \* seconds left of that call
  s_iter,           \* iterations left of the current 'for _ in range(..)'
  s_after,          \* history: seconds of the current wait that ended with
                    \* the flag already set
  s_open,           \* pool connections that are open
  s_connected,      \* client.connected of the current client
  s_cur,            \* recv_thread of the current client: "none", "blocked"
                    \* (in sock.recv) or "ready" (between two statements)
  s_cur_left,       \* seconds left of its recv timeout
  s_old,            \* recv_thread of the previous client
  s_old_left,       \* seconds left of its recv timeout
  s_sessions        \* clients constructed so far

superVars == <<s_pc, s_shutdown, s_in, s_sleep, s_iter, s_after, s_open,
               s_connected, s_cur, s_cur_left, s_old, s_old_left, s_sessions>>

\* The periodic hashrate report of the Mining Loop.
VARIABLES
  r_pc,             \* "round" (before the reporting step) or "report"
  r_now,            \* time.monotonic(), in seconds since the start
  last_log_time,    \* mine_with_pool: last_log_time
  r_times,          \* history: the times at which report_hashrate was called
  r_written         \* mining.hashrate messages written to the socket

reportVars == <<r_pc, r_now, last_log_time, r_times, r_written>>

\* gpu_proxy: the accept loop of main and its handler threads.
VARIABLES
  px_pc,            \* main: "args", "accept", "inc", "start" or "stopped"
  allowed_ips,      \* main: allowed_ips
  max_clients,      \* args.max_clients
  semaphore,        \* the value of threading.Semaphore(args.max_clients)
  active_clients,   \* stats['active_clients']
  px_tmp,           \* main: the value read by "stats['active_clients'] += 1"
  px_n,             \* connections accepted so far
  px_ip,            \* per connection: client_addr[0]
  px_h,             \* per connection: where the connection is
  px_htmp,          \* per handler: the value read by "-= 1"
  px_reply,         \* per connection: what the proxy wrote to it
  px_read,          \* connections from which a request was read
  px_gpu            \* connections for which the accelerator was contacted

proxyVars == <<px_pc, allowed_ips, max_clients, semaphore, active_clients,
               px_tmp, px_n, px_ip, px_h, px_htmp, px_reply, px_read, px_gpu>>

auxVars == <<accelVars, frameVars, lockVars, superVars, reportVars, proxyVars>>

vars == <<minerVars, backoffVars, heapVars, gpuVars, pureVars, auxVars>>

\* The state of the parts outside mine_with_pool's and stratum's threads
\* before their first step.
InitAccel ==
  /\ apc = "idle"
  /\ aopen = 0
  /\ asent = 0
  /\ abuf = <<>>
  /\ aret = Pending
  /\ acalls = 0

InitFrame ==
  /\ fwire = <<>>
  /\ fread = <<>>
  /\ fbuf = <<>>
  /\ fyield = <<>>
  /\ fjob = Null
  /\ fmined = 0
  /\ fcrash = "none"

InitLock ==
  /\ job_lock = "none"
  /\ lk_recv = "recv"
  /\ lk_main = "get_job"
  /\ lk_job = 0
  /\ lk_snap = 0
  /\ lk_n = 0

InitSuper ==
  /\ s_pc = "top"
  /\ s_shutdown = FALSE
  /\ s_in = FALSE
  /\ s_sleep = 0
  /\ s_iter = 0
  /\ s_after = 0
  /\ s_open = 0
  /\ s_connected = FALSE
  /\ s_cur = "none"
  /\ s_cur_left = 0
  /\ s_old = "none"
  /\ s_old_left = 0
  /\ s_sessions = 0

InitReport ==
  /\ r_pc = "round"
  /\ r_now = 0
  /\ last_log_time = 0
  /\ r_times = <<>>
  /\ r_written = 0

InitProxy ==
  /\ px_pc = "args"
  /\ allowed_ips = {}
  /\ max_clients = 0
  /\ semaphore = 0
  /\ active_clients = 0
  /\ px_tmp = 0
  /\ px_n = 0
  /\ px_ip = <<>>
  /\ px_h = <<>>
  /\ px_htmp = <<>>
  /\ px_reply = <<>>
  /\ px_read = {}
  /\ px_gpu = {}

InitAux ==
  InitAccel /\ InitFrame /\ InitLock /\ InitSuper /\ InitReport /\ InitProxy

\* ------------------------------------------------- reconnect backoff
Scale == 64
\* min(reconnect_delay * 1.5, MAX_RECONNECT_DELAY) on 1/64 s units (exact:
\* every value of the sequence is a multiple of 1/64).
NextDelay(d) ==
  IF 3 * d >= 2 * MAX_RECONNECT_DELAY * Scale
  THEN MAX_RECONNECT_DELAY * Scale
  ELSE (3 * d) \div 2

\* ------------------------------------------------------ receive path
\* A store that merges the new job into the old one.
HandleNotify_Merge(old, params) ==
  IF old = Null THEN params
  ELSE [f \in DOMAIN old \cup DOMAIN params |->
          IF f \in DOMAIN params THEN params[f] ELSE old[f]]

\* _handle_notify (with job_lock held): self.current_job = params.
HandleNotify(old, params) == params

\* 'for line in lines: if line.get("method") == "mining.notify": ...'
RECURSIVE ApplyNotifies(_, _)
ApplyNotifies(cur, lines) ==
  IF lines = <<>> THEN cur
  ELSE ApplyNotifies(
         IF Head(lines).kind = "notify"
         THEN HandleNotify(cur, Head(lines).params) ELSE cur,
         Tail(lines))

\* The outcomes of one _recv_lines call: the lines it returns, what is left
\* unread, and whether it found the stream closed (connected := False).
\* A call returns as soon as it has read at least one line (a close seen by
\* its second, quick recv is ignored, an error there is not); it returns
\* nothing on a timeout or on a closed stream.
RecvOutcomes ==
  IF sock # "open" THEN {[lines |-> <<>>, rest |-> wire, lost |-> FALSE]}
  ELSE
    {[lines |-> SubSeq(wire, 1, k), rest |-> SubSeq(wire, k + 1, Len(wire)),
      lost |-> l] : k \in 1..Len(wire),
                    l \in (IF peerClosed THEN BOOLEAN ELSE {FALSE})}
    \cup (IF peerClosed /\ wire = <<>>
          THEN {[lines |-> <<>>, rest |-> wire, lost |-> TRUE]} ELSE {})
    \cup (IF ~peerClosed
          THEN {[lines |-> <<>>, rest |-> wire, lost |-> FALSE]} ELSE {})

\* A scan that takes any reply with a truthy result.
SubscribeOk_AnyId(lines, id) ==
  \E i \in 1..Len(lines) :
    lines[i].kind = "reply" /\ Truthy(lines[i].result)

\* subscribe(): 'line.get("id") == self.msg_id and line.get("result")'.
SubscribeOk(lines, id) ==
  \E i \in 1..Len(lines) :
    /\ lines[i].kind = "reply"
    /\ lines[i].id = id
    /\ Truthy(lines[i].result)

\* authorize(): the scan of one batch of lines.  "rejected" as soon as a line
\* with the request's id has a falsy result; otherwise whether a line with
\* that id and a truthy result has been seen (now or in an earlier batch).
RECURSIVE AuthScan(_, _, _)
AuthScan(lines, id, auth) ==
  IF lines = <<>> THEN (IF auth THEN "authorized" ELSE "pending")
  ELSE IF Head(lines).kind = "reply" /\ Head(lines).id = id
       THEN IF Truthy(Head(lines).result)
            THEN AuthScan(Tail(lines), id, TRUE)
            ELSE "rejected"
       ELSE AuthScan(Tail(lines), id, auth)

\* -------------------------------------------------------------- Init
InitProgram ==
  /\ InitAux
  /\ pc = "top"
  /\ shutdown = FALSE
  /\ session = 0
  /\ recv_alive = FALSE
  /\ sock = "none"
  /\ connected = FALSE
  /\ running = TRUE
  /\ msg_id = 0
  /\ current_job = Null
  /\ wire = <<>>
  /\ peerClosed = FALSE
  /\ jobsIssued = 0
  /\ requests = <<>>
  /\ authorized = FALSE
  /\ attempt = 0
  /\ job = Null
  /\ resp = Pending
  /\ last_job_id = 0
  /\ timestamp = 0
  /\ reconnect_delay = RECONNECT_DELAY * Scale
  /\ total_hashes = 0
  /\ total_shares = 0
  /\ total_blocks = 0
  /\ status_connected = "unset"
  /\ lastSentId = 0
  /\ subRet = "none"
  /\ authRet = "none"
  /\ jobsAtConnect = 0
  /\ rounds = 0
  /\ roundsAtConnect = 0
  /\ writeFailed = FALSE
  /\ slept = 0
  /\ fails = 0
  /\ waited = 0
  /\ heap = <<>>
  /\ store = Null
  /\ snaps = <<>>
  /\ gpc = "top"
  /\ conns = 0
  /\ stratum_msg_id = 0
  /\ stratum_job = Null
  /\ shares_sent = 0
  /\ shares_accepted = 0
  /\ gwire = <<>>
  /\ gclosed = FALSE
  /\ gjobs = 0
  /\ grequests = <<>>
  /\ gjob = Null
  /\ grounds = 0
  /\ jobConn = 0

\* No call of merkle_root or hash_limit is in progress.
Init ==
  /\ InitProgram
  /\ arr = <<>>
  /\ layer = <<>>
  /\ mpc = "idle"
  /\ diff = 1
  /\ limit_pool = Null
  /\ limit_gpu = Null
  /\ hpc = "idle"

\* ------------------------------------------------------ StratumClient
\* A request line: {'id': ..., 'method': ..., 'params': ...}.
Req(method, id, params) == [method |-> method, id |-> id, params |-> params]

\* An id that is not advanced.
NextId_Same(m) == m

\* The id a request gets: self.msg_id += 1.
NextId(m) == m + 1

\* _send: client.connected after a write that succeeded (ok) or failed.
AfterSend(ok, conn) == IF ok THEN conn ELSE FALSE

\* What sock.sendall can do: once a write has failed on a socket, every
\* later write on it fails too.
WriteOutcomes(failed) == IF failed THEN {FALSE} ELSE BOOLEAN

\* A loop that goes on whatever the handshake step returned.
AfterHandshakeStep_Proceed(ok, next) == [pc |-> next, disconnect |-> FALSE]

\* mine_with_pool after subscribe()/authorize() returned ok: go on with the
\* next step, or disconnect and start over with a new client.
AfterHandshakeStep(ok, next) ==
  IF ok THEN [pc |-> next, disconnect |-> FALSE]
  ELSE [pc |-> "top", disconnect |-> TRUE]

\* ------------------------------------------------- supervisory loop
\* 'while not _shutdown: client = StratumClient(POOL_HOST, POOL_PORT)'
NewClient ==
  /\ pc = "top"
  /\ ~shutdown
  /\ session < MaxSessions
  /\ session' = session + 1
  /\ pc' = "connect"
  /\ recv_alive' = FALSE
  /\ sock' = "none"
  /\ connected' = FALSE
  /\ running' = TRUE
  /\ msg_id' = 0
  /\ current_job' = Null
  /\ wire' = <<>>
  /\ peerClosed' = FALSE
  /\ requests' = <<>>
  /\ lastSentId' = 0
  /\ subRet' = "none"
  /\ authRet' = "none"
  /\ writeFailed' = FALSE
  /\ jobsAtConnect' = jobsIssued
  /\ roundsAtConnect' = rounds
  /\ waited' = 0
  /\ UNCHANGED <<shutdown, jobsIssued, localVars, globalVars, rounds>>
  /\ UNCHANGED <<slept, fails, heapVars, gpuVars, pureVars, auxVars>>

\* The loop condition fails: write_status(pool_connected=False), return.
Stopped ==
  /\ pc = "top"
  /\ shutdown
  /\ pc' = "done"
  /\ status_connected' = "false"
  /\ UNCHANGED <<shutdown, session, recv_alive, clientVars, poolVars,
                 localVars, reconnect_delay, total_hashes, total_shares,
                 total_blocks, histVars>>
  /\ UNCHANGED <<backoffVars, heapVars, gpuVars, pureVars, auxVars>>

\* client.connect() fails: 'Retrying in {reconnect_delay}s...' is logged and
\* the wait begins.
ConnectFail ==
  /\ pc = "connect"
  /\ sock' = "unconnected"
  /\ connected' = FALSE
  /\ pc' = "backoff"
  /\ slept' = 0
  /\ fails' = fails + 1
  /\ UNCHANGED <<shutdown, session, recv_alive, running, msg_id, current_job,
                 poolVars, localVars, globalVars, histVars, waited>>
  /\ UNCHANGED <<heapVars, gpuVars, pureVars, auxVars>>

\* int(reconnect_delay), with reconnect_delay in 1/64 s.
SleepSeconds(d) == d \div Scale

\* 'for _ in range(int(reconnect_delay)): if _shutdown: break; time.sleep(1)'
\* one pass that sleeps.
BackoffSleep ==
  /\ pc = "backoff"
  /\ ~shutdown
  /\ slept < SleepSeconds(reconnect_delay)
  /\ slept' = slept + 1
  /\ UNCHANGED <<minerVars, fails, waited, heapVars, gpuVars, pureVars, auxVars>>

\* The wait ends (range exhausted, or _shutdown seen):
\* reconnect_delay = min(reconnect_delay * 1.5, MAX_RECONNECT_DELAY); continue
BackoffEnd ==
  /\ pc = "backoff"
  /\ shutdown \/ slept = SleepSeconds(reconnect_delay)
  /\ reconnect_delay' = NextDelay(reconnect_delay)
  /\ waited' = slept
  /\ slept' = 0
  /\ pc' = "top"
  /\ UNCHANGED <<shutdown, session, recv_alive, clientVars, poolVars,
                 localVars, total_hashes, total_shares, total_blocks,
                 status_connected, histVars, fails>>
  /\ UNCHANGED <<heapVars, gpuVars, pureVars, auxVars>>

\* client.connect() succeeds: the delay is reset.
ConnectOk ==
  /\ pc = "connect"
  /\ sock' = "open"
  /\ connected' = TRUE
  /\ reconnect_delay' = RECONNECT_DELAY * Scale
  /\ fails' = 0
  /\ pc' = "subscribe"
  /\ UNCHANGED <<shutdown, session, recv_alive, running, msg_id, current_job,
                 poolVars, localVars, total_hashes, total_shares,
                 total_blocks, status_connected, histVars, slept, waited>>
  /\ UNCHANGED <<heapVars, gpuVars, pureVars, auxVars>>

\* subscribe(): the request is written (or the write fails: subscribe
\* returns False, and mine_with_pool disconnects).
SubscribeSend ==
  /\ pc = "subscribe"
  /\ msg_id' = NextId(msg_id)
  /\ \E ok \in WriteOutcomes(writeFailed) :
       LET step == AfterHandshakeStep(ok, "sub_recv") IN
       /\ requests' = IF ok
                      THEN Append(requests, Req("mining.subscribe", msg_id', Null))
                      ELSE requests
       /\ lastSentId' = IF ok THEN msg_id' ELSE lastSentId
       /\ writeFailed' = (writeFailed \/ ~ok)
       /\ subRet' = IF ok THEN subRet ELSE "fail"
       /\ pc' = step.pc
       /\ connected' = IF step.disconnect THEN FALSE
                       ELSE AfterSend(ok, connected)
       /\ sock' = IF step.disconnect THEN "none" ELSE sock
  /\ UNCHANGED <<shutdown, session, recv_alive, running, current_job, wire,
                 peerClosed, jobsIssued, localVars, globalVars, authRet,
                 jobsAtConnect, rounds, roundsAtConnect>>
  /\ UNCHANGED <<backoffVars, heapVars, gpuVars, pureVars, auxVars>>

\* subscribe(): lines = self._recv_lines(10), then the scan for the reply.
SubscribeRecv ==
  /\ pc = "sub_recv"
  /\ \E o \in RecvOutcomes :
       LET ok == SubscribeOk(o.lines, msg_id)
           step == AfterHandshakeStep(ok, "authorize") IN
       /\ wire' = o.rest
       /\ current_job' = ApplyNotifies(current_job, o.lines)
       /\ subRet' = IF ok THEN "ok" ELSE "fail"
       /\ pc' = step.pc
       /\ connected' = IF step.disconnect \/ o.lost THEN FALSE ELSE connected
       /\ sock' = IF step.disconnect THEN "none" ELSE sock
  /\ UNCHANGED <<shutdown, session, recv_alive, running, msg_id, peerClosed,
                 jobsIssued, requests, localVars, globalVars, lastSentId,
                 authRet, jobsAtConnect, rounds, roundsAtConnect, writeFailed>>
  /\ UNCHANGED <<backoffVars, heapVars, gpuVars, pureVars, auxVars>>

\* authorize(): the request is written (or the write fails).
AuthorizeSend ==
  /\ pc = "authorize"
  /\ msg_id' = NextId(msg_id)
  /\ \E ok \in WriteOutcomes(writeFailed) :
       LET step == AfterHandshakeStep(ok, "auth_recv") IN
       /\ requests' = IF ok
                      THEN Append(requests, Req("mining.authorize", msg_id', Null))
                      ELSE requests
       /\ lastSentId' = IF ok THEN msg_id' ELSE lastSentId
       /\ writeFailed' = (writeFailed \/ ~ok)
       /\ authRet' = IF ok THEN authRet ELSE "fail"
       /\ pc' = step.pc
       /\ connected' = IF step.disconnect THEN FALSE
                       ELSE AfterSend(ok, connected)
       /\ sock' = IF step.disconnect THEN "none" ELSE sock
  /\ UNCHANGED <<shutdown, session, recv_alive, running, current_job, wire,
                 peerClosed, jobsIssued, localVars, globalVars, subRet,
                 jobsAtConnect, rounds, roundsAtConnect>>
  /\ UNCHANGED <<backoffVars, heapVars, gpuVars, pureVars, auxVars>>

\* authorize(): one pass of 'for attempt in range(3)': a receive call, the
\* scan of its lines for the reply, the early break once authorized with a
\* job, and the return after the last pass.
AuthorizeRecv ==
  /\ pc = "auth_recv"
  /\ \E o \in RecvOutcomes :
       LET scan == AuthScan(o.lines, msg_id, authorized)
           newJob == ApplyNotifies(current_job, o.lines)
           auth == (scan = "authorized")
           returns == \/ scan = "rejected"
                      \/ (auth /\ newJob # Null)
                      \/ attempt + 1 = AUTH_ATTEMPTS
           step == AfterHandshakeStep(auth, "waitjob") IN
       /\ wire' = o.rest
       /\ current_job' = newJob
       /\ IF returns
          THEN /\ authRet' = IF auth THEN "ok" ELSE "fail"
               /\ pc' = step.pc
               /\ connected' = IF step.disconnect \/ o.lost THEN FALSE
                               ELSE connected
               /\ sock' = IF step.disconnect THEN "none" ELSE sock
               /\ authorized' = FALSE
               /\ attempt' = 0
          ELSE /\ authorized' = auth
               /\ attempt' = attempt + 1
               /\ connected' = IF o.lost THEN FALSE ELSE connected
               /\ UNCHANGED <<authRet, pc, sock>>
  /\ UNCHANGED <<shutdown, session, recv_alive, running, msg_id, peerClosed,
                 jobsIssued, requests, job, resp, last_job_id, timestamp,
                 globalVars, lastSentId, subRet, jobsAtConnect, rounds,
                 roundsAtConnect, writeFailed>>
  /\ UNCHANGED <<backoffVars, heapVars, gpuVars, pureVars, auxVars>>

\* 'while not client.get_job() and time.monotonic() < deadline:
\*      client._recv_lines(2.0)'
WaitJobRecv ==
  /\ pc = "waitjob"
  /\ current_job = Null
  /\ \E o \in RecvOutcomes :
       /\ wire' = o.rest
       /\ current_job' = ApplyNotifies(current_job, o.lines)
       /\ connected' = IF o.lost THEN FALSE ELSE connected
  /\ UNCHANGED <<pc, shutdown, session, recv_alive, sock, running, msg_id,
                 peerClosed, jobsIssued, requests, localVars, globalVars,
                 histVars>>
  /\ UNCHANGED <<backoffVars, heapVars, gpuVars, pureVars, auxVars>>

\* The wait ends (a job is there, or the deadline has passed): without a
\* job disconnect and start over, with a job start the receiver thread.
WaitJobEnd ==
  /\ pc = "waitjob"
  /\ IF current_job = Null
     THEN /\ pc' = "top"
          /\ connected' = FALSE
          /\ sock' = "none"
          /\ UNCHANGED <<recv_alive, last_job_id>>
     ELSE /\ pc' = "mine"
          /\ recv_alive' = TRUE
          /\ last_job_id' = 0
          /\ UNCHANGED <<connected, sock>>
  /\ UNCHANGED <<shutdown, session, running, msg_id, current_job, poolVars,
                 authorized, attempt, job, resp, timestamp, globalVars,
                 histVars>>
  /\ UNCHANGED <<backoffVars, heapVars, gpuVars, pureVars, auxVars>>

\* ------------------------------------------------------ crypto helpers
\* Digests are kept symbolic: sha256(x) is the term [sha256 |-> x], and the
\* concatenation a + b of two strings is the term [left |-> a, right |-> b].
Sha256(x) == [sha256 |-> x]
Concat(a, b) == [left |-> a, right |-> b]
\* The hexadecimal digits of n >= 0, most significant first.
RECURSIVE HexDigits(_)
HexDigits(n) ==
  IF n < 16 THEN <<n>> ELSE Append(HexDigits(n \div 16), n % 16)

\* Left-padding with zeros to at least w digits (format spec '0{w}x').
RECURSIVE ZeroPad(_, _)
ZeroPad(ds, w) == IF Len(ds) >= w THEN ds ELSE ZeroPad(<<0>> \o ds, w)

\* hex_time(utime) = f'{utime:0{HEX_TIME_SIZE}x}'
HexTime(t) == ZeroPad(HexDigits(t), HEX_TIME_SIZE)

\* A time hash that appends its argument as it is.
TimeHash_Plain(obj, t) == <<HexTime(t), obj>>

\* time_hash(obj, timestamp) = hex_time(timestamp) + sha256(obj)
TimeHash(obj, t) == <<HexTime(t), Sha256(obj)>>
\* block_header(block_data)
BlockHeader(j, t) == Sha256(<<j.height, t>>)
\* pow_left = job['previous_blockhash'] + block_header(block_data)
PowLeft(j, t) == Concat(j.previous_blockhash, BlockHeader(j, t))

RECURSIVE Pow(_, _)
Pow(b, n) == IF n = 0 THEN 1 ELSE b * Pow(b, n - 1)

\* Width of a digest in bits (HASH_BYTES * 8 = 256 in the source).
HashBits == 8

\* HASH_COUNT = (1 << (HASH_BYTES * 8)) - 1, HASH_SIZE = HASH_BYTES * 2
HASH_COUNT == Pow(2, HashBits) - 1
HASH_SIZE == HashBits \div 4

Max(a, b) == IF a >= b THEN a ELSE b

\* Python's a // d for a >= 0 and d # 0: the quotient rounded down.
FloorDiv(a, d) ==
  IF d > 0 THEN a \div d ELSE 0 - ((a + (0 - d) - 1) \div (0 - d))

\* f'{x:0{w}x}' and format(x, '0{w}x'): the sign, then hexadecimal digits
\* zero-padded so that sign and digits together are at least w characters.
FormatHex(x, w) ==
  IF x >= 0 THEN [sign |-> "", digits |-> ZeroPad(HexDigits(x), w)]
  ELSE [sign |-> "-", digits |-> ZeroPad(HexDigits(0 - x), w - 1)]

\* pool_miner.hash_limit: d = max(int(diff), 1); HASH_COUNT // d, formatted.
HashLimit(df) ==
  LET d == Max(df, 1) IN FormatHex(FloorDiv(HASH_COUNT, d), HASH_SIZE)

\* A hexadecimal string as its characters in code-point order: '-' sorts
\* below every digit, and the digits '0'..'9','a'..'f' sort by value.
HexString(h) == IF h.sign = "-" THEN <<0 - 1>> \o h.digits ELSE h.digits

\* Python's a <= b on strings: the first differing character decides, and
\* a proper prefix is the smaller string.
RECURSIVE StrLe(_, _)
StrLe(a, b) ==
  IF a = <<>> THEN TRUE
  ELSE IF b = <<>> THEN FALSE
  ELSE IF Head(a) # Head(b) THEN Head(a) < Head(b)
  ELSE StrLe(Tail(a), Tail(b))

\* The same comparison read as "strictly below".
StrLt(a, b) == StrLe(a, b) /\ a # b

\* The value of the digest sha256(pow_left + nonce) of a round.  Digests are
\* symbolic, so the value is fixed per round: the nonce of an even round has
\* the digest 00..0, the nonce of an odd round the digest ff..f.
DigestValue(round) == IF round % 2 = 0 THEN 0 ELSE HASH_COUNT

\* hashlib's hexdigest(): HASH_SIZE lowercase hexadecimal characters.
HexDigest(round) == FormatHex(DigestValue(round), HASH_SIZE)

\* ------------------------------------------------------- accelerator
\* The nonce the accelerator finds in round r.
NonceOf(r) == <<"nonce", r>>

\* What the accelerator's socket can do in one call of gpu_mine_round: refuse
\* the connection, time out, close the channel before a full line, or send a
\* line that is not JSON, is not UTF-8, is a JSON list, or is a response
\* object ('continue' or 'found').
GpuBehaviours ==
  {"refused", "timeout", "closed", "bad_json", "bad_utf8", "json_list",
   "continue", "found"}

\* json.loads(line.decode()) of a line that is JSON, in round r.
GpuLine(b, r) ==
  IF b = "json_list" THEN [list |-> <<>>]
  ELSE IF b = "continue"
       THEN [result |-> "continue", nonce |-> "", total_hashes |-> 1]
  ELSE [result |-> "found", nonce |-> NonceOf(r), total_hashes |-> 1]

\* A Python value that has .get(): a dict.
IsDict(v) == "list" \notin DOMAIN v

\* gpu_mine_round in round r: it returns None on a connect failure
\* (except (socket.error, OSError)), on an empty chunk, and on the exceptions
\* of 'except (socket.timeout, socket.error, json.JSONDecodeError, OSError)';
\* line.decode() of bytes that are not UTF-8 raises UnicodeDecodeError, which
\* is none of these and leaves the function; otherwise it returns the parsed
\* value, whatever its type.
GpuMineRound(b, r) ==
  IF b \in {"refused", "timeout", "closed", "bad_json"}
  THEN [raised |-> FALSE, value |-> Null]
  ELSE IF b = "bad_utf8"
       THEN [raised |-> TRUE, value |-> Null]
       ELSE [raised |-> FALSE, value |-> GpuLine(b, r)]

\* ------------------------------------------------------- Mining Loop
\* get_job(): a copy of current_job, or None (with job_lock held).
GetJob(cur) == cur

\* A submission that reads the job id from the Job Store again.
SubmitJobId_Current(snapshot, held) == held.job_id

\* The job id mining.submit carries: the round's 'job_id' local.
SubmitJobId(snapshot, held) == snapshot.job_id

\* A loop that only watches the shutdown flag.
MiningLoopCond_NoConn(shut, conn) == ~shut

\* 'while not _shutdown and client.connected'
MiningLoopCond(shut, conn) == ~shut /\ conn

\* A classification that asks for a digest strictly below the target.
MeetsBlockTarget_Strict(br, block_target) ==
  StrLt(HexString(br), HexString(block_target))

\* 'is_block = br <= block_target': the string comparison of the digest with
\* the block target.
MeetsBlockTarget(br, block_target) ==
  StrLe(HexString(br), HexString(block_target))

\* A round timestamp that repeats the one of the round before.
RoundTimestamp_Stale(r) == r

\* 'timestamp = (time.time_ns() // 1_000) + 1_000_000': the clock read in
\* round r + 1; the clock is strictly later in every round.
RoundTimestamp(r) == r + 1

\* A hash counter that keeps the last report only.
AddHashes_Last(total, th) == IF th > 0 THEN th ELSE total

\* 'th = int(resp.get('total_hashes', 0)); if th > 0: _total_hashes += th'
AddHashes(total, th) == IF th > 0 THEN total + th ELSE total

\* One pass of the loop head and the round's set-up: take the snapshot, take
\* a fresh timestamp, build the prefix and call the accelerator.
RoundStart ==
  /\ pc = "mine"
  /\ MiningLoopCond(shutdown, connected)
  /\ rounds < MaxRounds
  /\ LET snap == GetJob(current_job) IN
     IF snap = Null
     THEN UNCHANGED <<pc, job, last_job_id, timestamp, rounds>>
     ELSE /\ job' = snap
          /\ last_job_id' = snap.job_id
          /\ timestamp' = RoundTimestamp(rounds)
          /\ rounds' = rounds + 1
          /\ pc' = "gpu"
  /\ UNCHANGED <<shutdown, session, recv_alive, clientVars, poolVars,
                 authorized, attempt, resp, globalVars, lastSentId, subRet,
                 authRet, jobsAtConnect, roundsAtConnect, writeFailed>>
  /\ UNCHANGED <<backoffVars, heapVars, gpuVars, pureVars, auxVars>>

\* gpu_mine_round ends and 'resp' is first used.  If the call raised, or
\* returned a value without .get() (resp.get('ghps', 0) raises
\* AttributeError), the exception leaves mine_with_pool, which has no handler:
\* the process ends with the daemon receiver thread and its socket.
GpuReturn ==
  /\ pc = "gpu"
  /\ \E b \in GpuBehaviours :
       LET o == GpuMineRound(b, rounds) IN
       IF o.raised \/ ~(o.value = Null \/ IsDict(o.value))
       THEN /\ pc' = "crashed"
            /\ recv_alive' = FALSE
            /\ sock' = "none"
            /\ UNCHANGED resp
       ELSE /\ pc' = "round_end"
            /\ resp' = o.value
            /\ UNCHANGED <<recv_alive, sock>>
  /\ UNCHANGED <<shutdown, session, connected, running, msg_id, current_job,
                 poolVars, authorized, attempt, job, last_job_id, timestamp,
                 globalVars, histVars>>
  /\ UNCHANGED <<backoffVars, heapVars, gpuVars, pureVars, auxVars>>

\* The rest of the round: on None wait and go on; otherwise the counters,
\* the status file, the periodic hashrate report, and on 'found' the share
\* submission.
RoundEnd ==
  /\ pc = "round_end"
  /\ pc' = "mine"
  /\ job' = Null
  /\ resp' = Pending
  /\ timestamp' = 0
  /\ IF resp = Null
     THEN \* 'GPU_AutoMiner not available': sleep(2), continue
          UNCHANGED <<connected, msg_id, requests, total_hashes, total_shares,
                      total_blocks, status_connected, lastSentId, writeFailed>>
     ELSE
       \E due \in BOOLEAN :
       \E okH \in WriteOutcomes(writeFailed) :
       \E okS \in WriteOutcomes(writeFailed \/ (due /\ ~okH)) :
       LET found == (resp.result = "found")
           idH == IF due THEN NextId(msg_id) ELSE msg_id
           connH == IF due THEN AfterSend(okH, connected) ELSE connected
           reqH == IF due /\ okH
                   THEN Append(requests, Req("mining.hashrate", idH, Null))
                   ELSE requests
           idS == IF found THEN NextId(idH) ELSE idH
           pow_left == PowLeft(job, timestamp)
           br == Sha256(Concat(pow_left, resp.nonce))
           bh == TimeHash(br, timestamp)
           block_target == HashLimit(job.difficulty)
           is_block == MeetsBlockTarget(HexDigest(rounds), block_target)
           share == [job_id |-> SubmitJobId(job, current_job),
                     nonce |-> resp.nonce, timestamp |-> timestamp,
                     blockhash |-> bh]
       IN
       /\ (~due => okH = ~writeFailed)
       /\ (~found => (okS = ~(writeFailed \/ (due /\ ~okH))))
       /\ total_hashes' = AddHashes(total_hashes, resp.total_hashes)
       /\ status_connected' = IF connected THEN "true" ELSE "false"
       /\ msg_id' = idS
       /\ connected' = IF found THEN AfterSend(okS, connH) ELSE connH
       /\ requests' = IF found /\ okS
                      THEN Append(reqH, Req("mining.submit", idS, share))
                      ELSE reqH
       /\ lastSentId' = IF found /\ okS THEN idS
                        ELSE IF due /\ okH THEN idH ELSE lastSentId
       /\ writeFailed' = (writeFailed \/ (due /\ ~okH) \/ (found /\ ~okS))
       /\ total_shares' = IF found THEN total_shares + 1 ELSE total_shares
       /\ total_blocks' = IF found /\ is_block THEN total_blocks + 1
                          ELSE total_blocks
  /\ UNCHANGED <<shutdown, session, recv_alive, sock, running, current_job,
                 wire, peerClosed, jobsIssued, authorized, attempt,
                 last_job_id, reconnect_delay, subRet, authRet, jobsAtConnect,
                 rounds, roundsAtConnect>>
  /\ UNCHANGED <<backoffVars, heapVars, gpuVars, pureVars, auxVars>>

\* The loop condition fails: client.running = False, client.disconnect(),
\* the wait, and back to the top of the supervisory loop.
MiningExit ==
  /\ pc = "mine"
  /\ ~MiningLoopCond(shutdown, connected)
  /\ running' = FALSE
  /\ connected' = FALSE
  /\ sock' = "none"
  /\ pc' = "top"
  /\ UNCHANGED <<shutdown, session, recv_alive, msg_id, current_job, poolVars,
                 localVars, globalVars, histVars>>
  /\ UNCHANGED <<backoffVars, heapVars, gpuVars, pureVars, auxVars>>

\* ----------------------------------------------------- Receiver Loop
\* A receiver that goes on until it is told to stop.
RecvLoopCond_NoConn(run, conn) == run

\* 'while self.running and self.connected'
RecvLoopCond(run, conn) == run /\ conn

\* A receiver that runs from the construction of the client on.
ReceiverRuns_Unstarted(alive) == TRUE

\* recv_thread runs in the thread made by 'recv_t = threading.Thread(
\* target=client.recv_thread, daemon=True); recv_t.start()'.
ReceiverRuns(alive) == alive

\* recv_thread: one pass of 'while self.running and self.connected'.
RecvThreadStep ==
  /\ ReceiverRuns(recv_alive)
  /\ RecvLoopCond(running, connected)
  /\ \E o \in RecvOutcomes :
       /\ wire' = o.rest
       /\ current_job' = ApplyNotifies(current_job, o.lines)
       /\ connected' = IF o.lost THEN FALSE ELSE connected
  /\ UNCHANGED <<pc, shutdown, session, recv_alive, sock, running, msg_id,
                 peerClosed, jobsIssued, requests, localVars, globalVars,
                 histVars>>
  /\ UNCHANGED <<backoffVars, heapVars, gpuVars, pureVars, auxVars>>

\* recv_thread: the loop condition fails and the thread ends.
RecvThreadExit ==
  /\ recv_alive
  /\ ~RecvLoopCond(running, connected)
  /\ recv_alive' = FALSE
  /\ UNCHANGED <<pc, shutdown, session, clientVars, poolVars, localVars,
                 globalVars, histVars>>
  /\ UNCHANGED <<backoffVars, heapVars, gpuVars, pureVars, auxVars>>

\* -------------------------------------------------------- environment
\* The replies the pool can give to a request: to a handshake request any
\* body with the request's id, or a true result with the id before it; to a
\* share or a hashrate report 'accepted' or an error, with the request's id.
RepliesTo(req) ==
  IF req.method \in {"mining.subscribe", "mining.authorize"}
  THEN {Reply(req.id, b[1], b[2]) : b \in ReplyBodies}
       \cup {Reply(req.id - 1, "true", "null")}
  ELSE {Reply(req.id, "true", "null"), Reply(req.id, "null", "err")}

\* The pool answers its oldest unanswered request.
PoolReply ==
  /\ sock = "open"
  /\ ~peerClosed
  /\ requests # <<>>
  /\ Len(wire) < MaxWire
  /\ requests' = Tail(requests)
  /\ \E m \in RepliesTo(Head(requests)) :
       wire' = Append(wire, m)
  /\ UNCHANGED <<pc, shutdown, session, recv_alive, clientVars, peerClosed,
                 jobsIssued, localVars, globalVars, histVars>>
  /\ UNCHANGED <<backoffVars, heapVars, gpuVars, pureVars, auxVars>>

\* The pool publishes a new job.
PoolNotify ==
  /\ sock = "open"
  /\ ~peerClosed
  /\ Len(wire) < MaxWire
  /\ jobsIssued < MaxJobs
  /\ jobsIssued' = jobsIssued + 1
  /\ wire' = Append(wire, Notify(JobOf(jobsIssued + 1)))
  /\ UNCHANGED <<pc, shutdown, session, recv_alive, clientVars, peerClosed,
                 requests, localVars, globalVars, histVars>>
  /\ UNCHANGED <<backoffVars, heapVars, gpuVars, pureVars, auxVars>>

\* The pool closes the socket.
PoolClose ==
  /\ sock = "open"
  /\ ~peerClosed
  /\ peerClosed' = TRUE
  /\ UNCHANGED <<pc, shutdown, session, recv_alive, clientVars, wire,
                 jobsIssued, requests, localVars, globalVars, histVars>>
  /\ UNCHANGED <<backoffVars, heapVars, gpuVars, pureVars, auxVars>>

\* signal_handler: SIGINT / SIGTERM.
Signal ==
  /\ ~shutdown
  /\ pc \notin {"done", "crashed"}
  /\ shutdown' = TRUE
  /\ UNCHANGED <<pc, session, recv_alive, clientVars, poolVars, localVars,
                 globalVars, histVars>>
  /\ UNCHANGED <<backoffVars, heapVars, gpuVars, pureVars, auxVars>>

MainThread ==
  \/ NewClient \/ Stopped \/ ConnectFail \/ BackoffSleep \/ BackoffEnd
  \/ ConnectOk
  \/ SubscribeSend \/ SubscribeRecv \/ AuthorizeSend \/ AuthorizeRecv
  \/ WaitJobRecv \/ WaitJobEnd \/ RoundStart \/ GpuReturn \/ RoundEnd
  \/ MiningExit

RecvThread == RecvThreadStep \/ RecvThreadExit

Pool == PoolReply \/ PoolNotify \/ PoolClose

Next == MainThread \/ RecvThread \/ Pool \/ Signal

Spec == Init /\ [][Next]_vars

\* Threads are scheduled fairly and every blocking call returns within its
\* timeout.
FairSpec == Spec /\ WF_vars(MainThread) /\ WF_vars(RecvThread)

\* ====================================================================
\* SpecBackoff: the supervisory loop over a run of failed connects
\* ====================================================================
MaxFails == 9         \* failed connects in a row

\* 'while not _shutdown: client = StratumClient(...)', any number of times.
BackoffNewClient ==
  /\ pc = "top"
  /\ ~shutdown
  /\ fails < MaxFails
  /\ pc' = "connect"
  /\ sock' = "none"
  /\ connected' = FALSE
  /\ waited' = 0
  /\ UNCHANGED <<shutdown, session, recv_alive, running, msg_id, current_job,
                 poolVars, localVars, globalVars, histVars>>
  /\ UNCHANGED <<slept, fails, heapVars, gpuVars, pureVars, auxVars>>

\* The rest of a session that got its connection, as one step: whatever
\* happens in it, it ends with client.disconnect() at the top of the loop.
BackoffSessionEnd ==
  /\ pc = "subscribe"
  /\ pc' = "top"
  /\ sock' = "none"
  /\ connected' = FALSE
  /\ UNCHANGED <<shutdown, session, recv_alive, running, msg_id, current_job,
                 poolVars, localVars, globalVars, histVars>>
  /\ UNCHANGED <<backoffVars, heapVars, gpuVars, pureVars, auxVars>>

NextBackoff ==
  \/ BackoffNewClient \/ ConnectFail \/ BackoffSleep \/ BackoffEnd
  \/ ConnectOk \/ BackoffSessionEnd \/ Stopped \/ Signal

SpecBackoff == Init /\ [][NextBackoff]_vars

Min(a, b) == IF a <= b THEN a ELSE b

\* C9 (as claimed): the wait after the k-th failed connect in a row lasts
\* min(5 * 1.5^(k-1), 60) seconds: 5, 7.5, 11.25, ... (compared exactly,
\* both sides times 2^(k-1)).
C9_WaitIsClaimedDelay ==
  (pc = "top" /\ fails >= 1 /\ ~shutdown)
    => waited * Pow(2, fails - 1)
         = Min(RECONNECT_DELAY * Pow(3, fails - 1),
               MAX_RECONNECT_DELAY * Pow(2, fails - 1))

\* What the code does keep: the variable reconnect_delay holds
\* min(5 * 1.5^(k-1), 60) during the k-th wait, stays within [5, 60], and
\* is 5 after a successful connect; an undisturbed wait lasts
\* int(reconnect_delay) seconds.
BackoffVariableInv ==
  /\ reconnect_delay >= RECONNECT_DELAY * Scale
  /\ reconnect_delay <= MAX_RECONNECT_DELAY * Scale
  /\ (pc = "backoff"
        => reconnect_delay * Pow(2, fails - 1)
             = Scale * Min(RECONNECT_DELAY * Pow(3, fails - 1),
                           MAX_RECONNECT_DELAY * Pow(2, fails - 1)))
  /\ (pc = "subscribe" => reconnect_delay = RECONNECT_DELAY * Scale)
  /\ (pc = "top" /\ fails >= 1 /\ ~shutdown
        => /\ waited * Scale <= reconnect_delay
           /\ waited \in {5, 7, 11, 16, 25, 37, 56, 60})

\* ====================================================================
\* SpecSnapshot: the Job Store with object references
\* ====================================================================
MaxLists == 3         \* list objects allocated (jobs published)
MaxSnaps == 2         \* snapshots handed out
MaxItems == 2         \* items a caller appends to a list

\* The dict json.loads makes of the params of job n: its receipts value is a
\* reference to a new list object, at address n.
JobDict(n) == [job_id |-> n, height |-> 100 + n, receipts |-> n]

\* dict.copy(): a new dict with the same value under every key; a value
\* that is a reference stays a reference to the same object.
DictCopy(d) == [k \in DOMAIN d |-> d[k]]

\* What a reader of dict d sees: the values, references followed.
Deref(d, h) ==
  IF d = Null THEN Null
  ELSE [job_id |-> d.job_id, height |-> d.height, receipts |-> h[d.receipts]]

\* _handle_notify(params): current_job refers to the new dict.
StoreNotify ==
  /\ Len(heap) < MaxLists
  /\ heap' = Append(heap, <<"r">>)
  /\ store' = JobDict(Len(heap) + 1)
  /\ UNCHANGED <<snaps, minerVars, backoffVars, gpuVars, pureVars, auxVars>>

\* get_job(): a caller is handed current_job.copy().
StoreGetJob ==
  /\ store # Null
  /\ Len(snaps) < MaxSnaps
  /\ snaps' = Append(snaps, DictCopy(store))
  /\ UNCHANGED <<heap, store, minerVars, backoffVars, gpuVars, pureVars, auxVars>>

\* A caller sets a key of a snapshot it holds: snapshot['height'] = v.
CallerSetsKey ==
  /\ \E i \in 1..Len(snaps) : \E v \in {0, 1} :
       /\ snaps[i].height # v
       /\ snaps' = [snaps EXCEPT ![i].height = v]
  /\ UNCHANGED <<heap, store, minerVars, backoffVars, gpuVars, pureVars, auxVars>>

\* A caller changes a list a snapshot refers to:
\* snapshot['receipts'].append(x).
CallerAppends ==
  /\ \E i \in 1..Len(snaps) :
       /\ Len(heap[snaps[i].receipts]) <= MaxItems
       /\ heap' = [heap EXCEPT ![snaps[i].receipts] = Append(@, "x")]
  /\ UNCHANGED <<store, snaps, minerVars, backoffVars, gpuVars, pureVars, auxVars>>

NextSnapshot == StoreNotify \/ StoreGetJob \/ CallerSetsKey \/ CallerAppends

SpecSnapshot == Init /\ [][NextSnapshot]_vars

\* C6 (as claimed): a change made to a returned snapshot never alters the
\* job held by the Job Store: what the store holds changes only when
\* _handle_notify replaces it.
C6_SnapshotIsolated ==
  [][store' = store => Deref(store', heap') = Deref(store, heap)]_vars

\* What the code does keep: setting a key of a snapshot leaves the stored
\* job as it was.
SnapshotKeysIsolated ==
  [][snaps' # snaps /\ Len(snaps') = Len(snaps)
       => Deref(store', heap') = Deref(store, heap)]_vars

\* ====================================================================
\* Properties of pool_miner (Spec, FairSpec)
\* ====================================================================
\* The lines a step of the client reads off the wire.
Consumed ==
  IF session' = session /\ Len(wire') < Len(wire)
  THEN SubSeq(wire, 1, Len(wire) - Len(wire'))
  ELSE <<>>

\* The requests a step of the client writes to the connection.
Written ==
  IF session' = session /\ Len(requests') > Len(requests)
  THEN SubSeq(requests', Len(requests) + 1, Len(requests'))
  ELSE <<>>

WrittenMethods == {Written[i].method : i \in 1..Len(Written)}

MiningPcs == {"mine", "gpu", "round_end"}

\* C1: mining.authorize is written only after subscribe() returned success
\* on the same client; the wait for the first job, the Receiver Loop and
\* the mining rounds exist only after authorize() returned success; after
\* a failed step the client is disconnected and nothing more is written to
\* or read from its connection.
C1_OrderInv ==
  /\ (pc \in {"authorize", "auth_recv"} => subRet = "ok")
  /\ (pc \in {"waitjob"} \cup MiningPcs => subRet = "ok" /\ authRet = "ok")
  /\ (recv_alive => authRet = "ok")
  /\ (subRet = "fail" \/ authRet = "fail"
        => sock = "none" /\ ~connected /\ ~recv_alive /\ pc \in {"top", "done"})

C1_OrderStep ==
  /\ ("mining.authorize" \in WrittenMethods => subRet = "ok")
  /\ (rounds' > rounds => authRet = "ok")
  /\ (recv_alive' /\ ~recv_alive => authRet = "ok")
  /\ (subRet = "fail" \/ authRet = "fail"
        => Written = <<>> /\ Consumed = <<>>)

C1_HandshakeOrder == [](C1_OrderInv) /\ [][C1_OrderStep]_vars

C1_Witness ==
  pc = "gpu" /\ subRet = "ok" /\ authRet = "ok" /\ recv_alive /\ session = 2

\* A reply among lines with the given id whose result satisfies P.
HasReply(lines, id, P(_)) ==
  \E i \in 1..Len(lines) :
    lines[i].kind = "reply" /\ lines[i].id = id /\ P(lines[i].result)

IsTrue(v) == v = "true"
IsFalsy(v) == ~Truthy(v)

\* C2 (as amended): subscribe() returns success exactly when the lines of
\* its one receive call hold a reply with the id of the subscribe request
\* and a truthy result (true, or any non-zero / non-empty value); a reply
\* with another id, a falsy result (false, null) or no reply gives failure.
C2_SubscribeTruthy ==
  [][pc = "sub_recv" /\ pc' # "sub_recv"
       => /\ (subRet' = "ok") = HasReply(Consumed, lastSentId, Truthy)
          /\ (subRet' = "fail") = ~HasReply(Consumed, lastSentId, Truthy)
          /\ (pc' = "authorize") = (subRet' = "ok")]_vars

C2_Witness == pc = "authorize" /\ subRet = "ok" /\ lastSentId = 1

\* C2 (as claimed): subscribe() returns success only on a reply with the
\* matching id whose result is the value true.
C2_SubscribeOnlyTrue ==
  [][pc = "sub_recv" /\ subRet' = "ok"
       => HasReply(Consumed, lastSentId, IsTrue)]_vars

\* A reply among lines with the given id that carries an error.
HasErrorReply(lines, id) ==
  \E i \in 1..Len(lines) :
    lines[i].kind = "reply" /\ lines[i].id = id /\ lines[i].error # "null"

\* What the code does keep: authorize() fails whenever a reply with the id
\* of the authorize request carries a falsy result (false or null, as an
\* error reply usually does); mine_with_pool then disconnects the socket,
\* and at most one mining.authorize is ever written on a connection.
AuthorizeRejectsFalsy ==
  [][/\ (pc = "auth_recv" /\ HasReply(Consumed, lastSentId, IsFalsy)
           => authRet' = "fail" /\ sock' = "none" /\ ~connected'
              /\ pc' = "top")
     /\ ("mining.authorize" \in WrittenMethods
           => lastSentId = 1 /\ authRet = "none" /\ Len(Written) = 1)]_vars

\* C3 (as claimed): a reply with the id of the authorize request that
\* carries an error field never lets authorize() return success.
C3_ErrorFieldRejects ==
  [][pc = "auth_recv" /\ HasErrorReply(Consumed, lastSentId)
       => authRet' # "ok"]_vars

\* C4: the requests written on one connection carry strictly increasing
\* ids that begin at 1, and a failed write leaves connected = False.
C4_IdsStep ==
  /\ \A i \in 1..Len(Written) :
       Written[i].id > (IF i = 1 THEN lastSentId ELSE Written[i - 1].id)
  /\ (lastSentId = 0 /\ Written # <<>> => Written[1].id = 1)
  /\ (Written # <<>> => lastSentId' = Written[Len(Written)].id)
  /\ (writeFailed' /\ ~writeFailed => ~connected')

C4_MonotonicIds == [](writeFailed => ~connected) /\ [][C4_IdsStep]_vars

C4_Witness ==
  /\ Len(requests) >= 2
  /\ requests[Len(requests)].method = "mining.submit"
  /\ requests[Len(requests) - 1].method = "mining.hashrate"

\* The params of the last mining.notify among lines, or cur if there is none.
RECURSIVE LastNotify(_, _)
LastNotify(lines, cur) ==
  IF lines = <<>> THEN cur
  ELSE IF lines[Len(lines)].kind = "notify" THEN lines[Len(lines)].params
       ELSE LastNotify(SubSeq(lines, 1, Len(lines) - 1), cur)

\* C5: after every receive the Job Store holds exactly the params of the
\* most recent mining.notify read on the session (nothing of the job before
\* it), and a snapshot taken by get_job is the job the store holds then: the
\* latest one replaced in, never an earlier one.
C5_JobStoreStep ==
  /\ (session' = session => current_job' = LastNotify(Consumed, current_job))
  /\ (rounds' > rounds => job' = current_job /\ job' # Null)
  /\ (session' = session /\ current_job # Null
        => current_job'.job_id >= current_job.job_id)

C5_JobStoreLatest == [][C5_JobStoreStep]_vars

C5_Witness == pc = "gpu" /\ job = JobOf(2) /\ last_job_id = 2 /\ rounds = 2

\* C7: once the pool has closed the socket of a mining session the Mining
\* Loop of that session stops; a mining round starts, and a share is
\* submitted, only on a client that is connected and has completed its own
\* subscribe and authorize; and a share is submitted only on the connection
\* of the session whose round found it.
C7_ReconnectStep ==
  /\ (rounds' > rounds
        => connected /\ sock = "open" /\ subRet = "ok" /\ authRet = "ok"
           /\ lastSentId >= 2)
  /\ \A i \in 1..Len(Written) :
       Written[i].method = "mining.submit"
         => /\ subRet = "ok" /\ authRet = "ok"
            /\ Written[i].params.timestamp > roundsAtConnect
            /\ Written[i].params.timestamp = rounds

C7_ReconnectAfterLoss ==
  /\ [][C7_ReconnectStep]_vars
  /\ ((pc \in MiningPcs /\ peerClosed) ~> (pc \notin MiningPcs))

C7_Witness ==
  /\ session = 2 /\ pc = "round_end" /\ roundsAtConnect = 1
  /\ total_shares = 1 /\ resp # Null /\ resp.result = "found"

\* C10: a round whose accelerator result is 'found' makes one submit_share
\* call: at most one mining.submit is written (none only if the write
\* fails), carrying the job id of the round's snapshot, the returned nonce,
\* the round's timestamp and the block hash computed from them, and the
\* share counter grows by one; no other step writes a mining.submit or
\* changes the share counter, so no found nonce is submitted twice.
SubmitsWritten == {i \in 1..Len(Written) : Written[i].method = "mining.submit"}

C10_SubmitStep ==
  IF pc = "round_end" /\ pc' = "mine" /\ resp # Null /\ resp.result = "found"
  THEN /\ total_shares' = total_shares + 1
       /\ Cardinality(SubmitsWritten) <= 1
       /\ (SubmitsWritten = {} => writeFailed')
       /\ \A i \in SubmitsWritten :
            /\ Written[i].params.job_id = job.job_id
            /\ Written[i].params.nonce = resp.nonce
            /\ Written[i].params.timestamp = timestamp
            /\ Written[i].params.blockhash[1] = HexTime(timestamp)
            /\ Written[i].id = msg_id'
       /\ msg_id' \in {msg_id + 1, msg_id + 2}
  ELSE /\ total_shares' = total_shares
       /\ SubmitsWritten = {}

C10_OneSubmitPerFound == [][C10_SubmitStep]_vars

C10_Witness ==
  /\ total_shares = 2
  /\ requests # <<>>
  /\ requests[Len(requests)].method = "mining.submit"
  /\ requests[Len(requests)].params.job_id = 1
  /\ current_job = JobOf(2)

\* ====================================================================
\* SpecGpuPool: gpu_pool_miner.py, main and its StratumClient 'stratum'
\* ====================================================================
\* stratum is created once, before 'while True'; every pass of that loop
\* calls stratum.connect() and stratum.handshake() on the same object.  A
\* connect() that raises changes nothing (sleep, next pass), so it is a
\* stuttering step.  Writes fail only on a connection the pool has closed.
GMaxConns == 2        \* connections stratum opens
GMaxWire == 2         \* unread pool lines in flight on one connection
GMaxJobs == 2         \* jobs the pool issues
GMaxRounds == 2       \* accelerator calls

\* The job the pool issues with serial n (all the keys main reads).
GJobOf(n) ==
  [job_id |-> n, height |-> 100 + n, difficulty |-> 1000,
   share_difficulty |-> 10, share_target |-> "st", block_target |-> "bt"]

\* recv_messages / recv_one: the lines a call returns and what is left; on a
\* closed stream the call raises ConnectionError instead.
GRecvBatches(canBeEmpty) ==
  {[lines |-> SubSeq(gwire, 1, k), rest |-> SubSeq(gwire, k + 1, Len(gwire))] :
     k \in (IF canBeEmpty THEN 0 ELSE 1)..Len(gwire)}
  \cup (IF ~gclosed THEN {[lines |-> <<>>, rest |-> gwire]} ELSE {})

\* process_messages: stratum.job after the lines.
RECURSIVE GJobAfter(_, _)
GJobAfter(cur, lines) ==
  IF lines = <<>> THEN cur
  ELSE GJobAfter(IF Head(lines).kind = "notify" THEN Head(lines).params
                 ELSE cur, Tail(lines))

\* process_messages: the lines counted into shares_accepted
\* ('result' in msg and msg['result'] is True).
RECURSIVE GAccepted(_)
GAccepted(lines) ==
  IF lines = <<>> THEN 0
  ELSE (IF Head(lines).kind = "reply" /\ Head(lines).result = "true"
        THEN 1 ELSE 0) + GAccepted(Tail(lines))

GHasNotify(lines) == \E i \in 1..Len(lines) : lines[i].kind = "notify"

\* A line that is not JSON.
Garbage == [kind |-> "garbage"]

\* recv_messages: 'msgs.append(json.loads(line))' has no handler, so a batch
\* with a line that is not JSON raises json.JSONDecodeError out of the call.
GRecvRaises(lines) == \E i \in 1..Len(lines) : lines[i] = Garbage

\* The state after recv_messages raised on the batch b: the lines parsed
\* before the bad one are lost with 'msgs', process_messages is not called,
\* and main's 'except Exception' sleeps and connects again.
GRecvRaise(b) ==
  /\ gwire' = b.rest
  /\ gpc' = "top"
  /\ UNCHANGED <<stratum_job, shares_accepted, jobConn>>

\* The state after process_messages(lines).
GProcess(b) ==
  /\ gwire' = b.rest
  /\ stratum_job' = GJobAfter(stratum_job, b.lines)
  /\ shares_accepted' = shares_accepted + GAccepted(b.lines)
  /\ jobConn' = IF GHasNotify(b.lines) THEN conns ELSE jobConn

\* stratum.connect(): a new socket, recv_buf = b''.  msg_id and job stay.
GConnect ==
  /\ gpc = "top"
  /\ conns < GMaxConns
  /\ conns' = conns + 1
  /\ gwire' = <<>>
  /\ gclosed' = FALSE
  /\ grequests' = <<>>
  /\ gpc' = "subscribe"
  /\ UNCHANGED <<stratum_msg_id, stratum_job, shares_sent, shares_accepted,
                 gjobs, gjob, grounds, jobConn>>
  /\ UNCHANGED <<minerVars, backoffVars, heapVars, pureVars, auxVars>>

\* What stratum.sock.sendall can do: it raises only on a connection the
\* pool has closed.
GWriteOutcomes(closed) == IF closed THEN BOOLEAN ELSE {TRUE}

\* send(method, params): msg_id += 1, then sendall, which may raise
\* (main: except Exception, sleep, reconnect).
GSend(method, next) ==
  /\ stratum_msg_id' = stratum_msg_id + 1
  /\ \E ok \in GWriteOutcomes(gclosed) :
       IF ok
       THEN /\ grequests' = Append(grequests,
                                   Req(method, stratum_msg_id + 1, Null))
            /\ gpc' = next
       ELSE /\ grequests' = grequests
            /\ gpc' = "top"

\* handshake(): self.send('mining.subscribe', [])
GSubscribeSend ==
  /\ gpc = "subscribe"
  /\ GSend("mining.subscribe", "sub_recv")
  /\ UNCHANGED <<conns, stratum_job, shares_sent, shares_accepted, gwire,
                 gclosed, gjobs, gjob, grounds, jobConn>>
  /\ UNCHANGED <<minerVars, backoffVars, heapVars, pureVars, auxVars>>

\* handshake(): msgs = self.recv_one(); self.process_messages(msgs).  The
\* subscribe reply is not looked at.
GSubscribeRecv ==
  /\ gpc = "sub_recv"
  /\ \/ \E b \in GRecvBatches(FALSE) :
          IF GRecvRaises(b.lines) THEN GRecvRaise(b)
          ELSE GProcess(b) /\ gpc' = "authorize"
     \/ /\ gclosed
        /\ gpc' = "top"
        /\ UNCHANGED <<gwire, stratum_job, shares_accepted, jobConn>>
  /\ UNCHANGED <<conns, stratum_msg_id, shares_sent, gclosed, gjobs,
                 grequests, gjob, grounds>>
  /\ UNCHANGED <<minerVars, backoffVars, heapVars, pureVars, auxVars>>

\* handshake(): self.send('mining.authorize', [address, worker])
GAuthorizeSend ==
  /\ gpc = "authorize"
  /\ GSend("mining.authorize", "auth_recv")
  /\ UNCHANGED <<conns, stratum_job, shares_sent, shares_accepted, gwire,
                 gclosed, gjobs, gjob, grounds, jobConn>>
  /\ UNCHANGED <<minerVars, backoffVars, heapVars, pureVars, auxVars>>

\* auth_ok = any(m.get('result') is True for m in msgs)
GAuthOk(lines) ==
  \E i \in 1..Len(lines) : lines[i].kind = "reply" /\ lines[i].result = "true"

\* handshake(): the batch after the authorize request; sys.exit(1) unless
\* auth_ok; then the job wait only 'if self.job is None'.
GAuthorizeRecv ==
  /\ gpc = "auth_recv"
  /\ \/ \E b \in GRecvBatches(FALSE) :
          IF GRecvRaises(b.lines) THEN GRecvRaise(b)
          ELSE /\ GProcess(b)
               /\ gpc' = IF ~GAuthOk(b.lines) THEN "exit"
                         ELSE IF stratum_job' = Null THEN "waitjob"
                         ELSE "mine"
     \/ /\ gclosed
        /\ gpc' = "top"
        /\ UNCHANGED <<gwire, stratum_job, shares_accepted, jobConn>>
  /\ UNCHANGED <<conns, stratum_msg_id, shares_sent, gclosed, gjobs,
                 grequests, gjob, grounds>>
  /\ UNCHANGED <<minerVars, backoffVars, heapVars, pureVars, auxVars>>

\* handshake(): 'for _ in range(20): msgs = self.recv_one(timeout=1); ...;
\* if self.job: break': one pass.
GWaitJobRecv ==
  /\ gpc = "waitjob"
  /\ \/ \E b \in GRecvBatches(FALSE) :
          IF GRecvRaises(b.lines) THEN GRecvRaise(b)
          ELSE /\ GProcess(b)
               /\ gpc' = IF stratum_job' = Null THEN "waitjob" ELSE "mine"
     \/ /\ gclosed
        /\ gpc' = "top"
        /\ UNCHANGED <<gwire, stratum_job, shares_accepted, jobConn>>
  /\ UNCHANGED <<conns, stratum_msg_id, shares_sent, gclosed, gjobs,
                 grequests, gjob, grounds>>
  /\ UNCHANGED <<minerVars, backoffVars, heapVars, pureVars, auxVars>>

\* The passes run out without a job; main: 'if not stratum.job: ...
\* time.sleep(5); continue', that is connect again.
GWaitJobEnd ==
  /\ gpc = "waitjob"
  /\ stratum_job = Null
  /\ gpc' = "top"
  /\ UNCHANGED <<conns, stratum_msg_id, stratum_job, shares_sent,
                 shares_accepted, gwire, gclosed, gjobs, grequests, gjob,
                 grounds, jobConn>>
  /\ UNCHANGED <<minerVars, backoffVars, heapVars, pureVars, auxVars>>

\* The job a round of main mines: 'job = stratum.job'.
GRoundJob(held) == held

\* main, one pass of the inner loop up to the accelerator call:
\* recv_messages(timeout=0.01), process_messages, job = stratum.job.
GRoundStart ==
  /\ gpc = "mine"
  /\ grounds < GMaxRounds
  /\ \/ \E b \in GRecvBatches(TRUE) :
          IF GRecvRaises(b.lines)
          THEN GRecvRaise(b) /\ UNCHANGED <<gjob, grounds>>
          ELSE /\ GProcess(b)
               /\ gjob' = GRoundJob(stratum_job')
               /\ grounds' = grounds + 1
               /\ gpc' = "gpu"
     \/ /\ gclosed
        /\ gpc' = "top"
        /\ UNCHANGED <<gwire, stratum_job, shares_accepted, jobConn, gjob,
                       grounds>>
  /\ UNCHANGED <<conns, stratum_msg_id, shares_sent, gclosed, gjobs,
                 grequests>>
  /\ UNCHANGED <<minerVars, backoffVars, heapVars, pureVars, auxVars>>

\* main, the rest of the pass: gpu.mine_round returned None (sleep, next
\* pass), or a response: on 'found' stratum.submit_share(nonce, timestamp),
\* and every 30 s stratum.report_hashrate.  A send that raises ends the
\* pass (except Exception: sleep, reconnect).
GRoundEnd ==
  /\ gpc = "gpu"
  /\ gjob' = Null
  /\ \E result \in {"none", "continue", "found"} :
     \E due \in BOOLEAN :
     \E ok1 \in GWriteOutcomes(gclosed) :
     \E ok2 \in GWriteOutcomes(gclosed) :
       LET found == (result = "found")
           report == (result # "none" /\ due /\ (found => ok1))
           id1 == IF found THEN stratum_msg_id + 1 ELSE stratum_msg_id
           id2 == IF report THEN id1 + 1 ELSE id1
           req1 == IF found /\ ok1
                   THEN Append(grequests, Req("mining.submit", id1, Null))
                   ELSE grequests
           req2 == IF report /\ ok2
                   THEN Append(req1, Req("mining.hashrate", id2, Null))
                   ELSE req1
       IN
       /\ (~found => ok1)
       /\ (~report => ok2)
       /\ shares_sent' = IF found THEN shares_sent + 1 ELSE shares_sent
       /\ stratum_msg_id' = id2
       /\ grequests' = req2
       /\ gpc' = IF (found /\ ~ok1) \/ (report /\ ~ok2) THEN "top"
                 ELSE "mine"
  /\ UNCHANGED <<conns, stratum_job, shares_accepted, gwire, gclosed, gjobs,
                 grounds, jobConn>>
  /\ UNCHANGED <<minerVars, backoffVars, heapVars, pureVars, auxVars>>

\* KeyboardInterrupt: 'Stopped by user', break.
GInterrupt ==
  /\ gpc \notin {"exit", "stopped"}
  /\ gpc' = "stopped"
  /\ gjob' = Null
  /\ UNCHANGED <<conns, stratum_msg_id, stratum_job, shares_sent,
                 shares_accepted, gwire, gclosed, gjobs, grequests, grounds,
                 jobConn>>
  /\ UNCHANGED <<minerVars, backoffVars, heapVars, pureVars, auxVars>>

GLive == conns >= 1 /\ ~gclosed /\ gpc \notin {"top", "exit", "stopped"}

\* The pool answers stratum's oldest unanswered request.
GPoolReply ==
  /\ GLive
  /\ grequests # <<>>
  /\ Len(gwire) < GMaxWire
  /\ grequests' = Tail(grequests)
  /\ \E r \in {<<"true", "null">>, <<"null", "err">>} :
       gwire' = Append(gwire, Reply(Head(grequests).id, r[1], r[2]))
  /\ UNCHANGED <<gpc, conns, stratum_msg_id, stratum_job, shares_sent,
                 shares_accepted, gclosed, gjobs, gjob, grounds, jobConn>>
  /\ UNCHANGED <<minerVars, backoffVars, heapVars, pureVars, auxVars>>

\* The pool publishes a new job on the connection.
GPoolNotify ==
  /\ GLive
  /\ Len(gwire) < GMaxWire
  /\ gjobs < GMaxJobs
  /\ gjobs' = gjobs + 1
  /\ gwire' = Append(gwire, Notify(GJobOf(gjobs + 1)))
  /\ UNCHANGED <<gpc, conns, stratum_msg_id, stratum_job, shares_sent,
                 shares_accepted, gclosed, grequests, gjob, grounds, jobConn>>
  /\ UNCHANGED <<minerVars, backoffVars, heapVars, pureVars, auxVars>>

\* The pool (or whatever sits on the connection) sends a line that is not
\* JSON.
GPoolGarbage ==
  /\ GLive
  /\ Len(gwire) < GMaxWire
  /\ gwire' = Append(gwire, Garbage)
  /\ UNCHANGED <<gpc, conns, stratum_msg_id, stratum_job, shares_sent,
                 shares_accepted, gclosed, gjobs, grequests, gjob, grounds,
                 jobConn>>
  /\ UNCHANGED <<minerVars, backoffVars, heapVars, pureVars, auxVars>>

\* The pool closes the connection.
GPoolClose ==
  /\ GLive
  /\ gclosed' = TRUE
  /\ UNCHANGED <<gpc, conns, stratum_msg_id, stratum_job, shares_sent,
                 shares_accepted, gwire, gjobs, grequests, gjob, grounds,
                 jobConn>>
  /\ UNCHANGED <<minerVars, backoffVars, heapVars, pureVars, auxVars>>

NextGpuPool ==
  \/ GConnect \/ GSubscribeSend \/ GSubscribeRecv \/ GAuthorizeSend
  \/ GAuthorizeRecv \/ GWaitJobRecv \/ GWaitJobEnd \/ GRoundStart
  \/ GRoundEnd \/ GInterrupt \/ GPoolReply \/ GPoolNotify \/ GPoolGarbage
  \/ GPoolClose

SpecGpuPool == Init /\ [][NextGpuPool]_vars

\* C8 (as claimed, for gpu_pool_miner): the job that drives an accelerator
\* round, and the share submitted from it, was delivered by a mining.notify
\* received on the current connection.
C8_RoundJobIsFresh == gpc = "gpu" => jobConn = conns

\* What the code does keep in pool_miner (Spec): every session starts with
\* an empty Job Store, so a round's job was issued after its client was made.
PoolMinerRoundJobIsFresh ==
  /\ (job # Null => job.job_id > jobsAtConnect)
  /\ (current_job # Null => current_job.job_id > jobsAtConnect)

\* The mining.submit requests a step writes.
SubmitParams == {Written[i].params : i \in SubmitsWritten}

\* C11 (as amended): the block hash sent in mining.submit is the 14-digit
\* hexadecimal timestamp of the round followed by H(H(prefix || nonce)):
\* the digest is applied to prefix || nonce (the block root br) and then,
\* by time_hash, once more to br.
C11_BlockHashDouble ==
  [][\A sp \in SubmitParams :
       /\ sp.blockhash
            = <<HexTime(timestamp),
                Sha256(Sha256(Concat(PowLeft(job, timestamp), resp.nonce)))>>
       /\ Len(sp.blockhash[1]) = HEX_TIME_SIZE
       /\ sp.timestamp = timestamp]_vars

C11_Witness ==
  /\ requests # <<>>
  /\ requests[Len(requests)].method = "mining.submit"
  /\ requests[Len(requests)].params.timestamp = 2
  /\ requests[Len(requests)].params.blockhash[1][HEX_TIME_SIZE] = 2

\* C11 (as claimed): the block hash is the hexadecimal timestamp followed by
\* H(prefix || nonce), the digest applied exactly once: what the one digest
\* after the timestamp is taken of is the concatenation prefix || nonce.
C11_BlockHashSingle ==
  [][\A sp \in SubmitParams :
       /\ sp.blockhash[1] = HexTime(timestamp)
       /\ DOMAIN sp.blockhash[2] = {"sha256"}
       /\ DOMAIN sp.blockhash[2].sha256 = {"left", "right"}]_vars

\* A round whose accelerator call returned None goes back to the loop head
\* and leaves the Job Store and the cumulative counters as they are.
AcceleratorNoneIsTransient ==
  [][pc = "round_end" /\ resp = Null /\ pc' # pc
       => /\ pc' = "mine"
          /\ UNCHANGED <<current_job, total_hashes, total_shares,
                         total_blocks, msg_id, connected>>]_vars

\* C12: whatever the accelerator does (refuses the connection, times out,
\* closes the channel, sends bytes that are not UTF-8, invalid JSON, or JSON
\* that is not a response object), the accelerator call does not raise into
\* mine_with_pool: the Mining Loop never terminates because of it, and an
\* unavailable round goes back to the loop head without changing the Job
\* Store or the cumulative counters.
C12_AcceleratorFailureContained ==
  [][/\ pc' # "crashed"
     /\ (pc = "round_end" /\ resp = Null /\ pc' # pc
           => /\ pc' = "mine"
              /\ UNCHANGED <<current_job, total_hashes, total_shares,
                             total_blocks>>)]_vars

\* The lines a step of stratum takes off its connection.
GConsumed ==
  IF conns' = conns /\ Len(gwire') < Len(gwire)
  THEN SubSeq(gwire, 1, Len(gwire) - Len(gwire'))
  ELSE <<>>

\* C13 (for gpu_pool_miner): a line that is not JSON is dropped: the read
\* that meets it does not abort the connection (no reconnect follows), and
\* the other lines of the same read are still delivered, in order.
C13_MalformedLineDropped ==
  [][GRecvRaises(GConsumed)
       => /\ gpc' # "top"
          /\ stratum_job' = GJobAfter(stratum_job, GConsumed)]_vars

\* C14 (for gpu_pool_miner): an authorize rejection is recoverable: when the
\* read after mining.authorize returns lines none of which is a reply with
\* result true, the client gives this connection up and goes back to the top
\* of its loop to connect again; the process does not end.
C14_AuthRejectionRecoverable ==
  [][(/\ gpc = "auth_recv"
      /\ GConsumed # <<>>
      /\ ~GRecvRaises(GConsumed)
      /\ ~GAuthOk(GConsumed))
       => gpc' = "top"]_vars

\* C17 (for gpu_pool_miner): shares_accepted counts only replies with result
\* true that answer a mining.submit, so it never exceeds the number of
\* shares submitted.
C17_AcceptedOnlyForSubmits == shares_accepted <= shares_sent

\* Once the shutdown flag is set no new client is made and no new round is
\* started, a status written at the end has the connectivity flag false, and
\* mine_with_pool ends: it returns, or an exception has ended it before.
ShutdownStopsOrCrashed ==
  /\ [][shutdown => session' = session /\ rounds' = rounds]_vars
  /\ [](pc = "done" => status_connected = "false")
  /\ (shutdown ~> pc \in {"done", "crashed"})

\* C15: once the shutdown flag is set, mine_with_pool starts no new
\* connection attempt and no new mining round, leaves the mining loop and the
\* supervisory loop, and the last status it writes has the connectivity flag
\* false.
C15_ShutdownFinalizes ==
  /\ [][shutdown => session' = session /\ rounds' = rounds]_vars
  /\ (shutdown ~> (pc = "done" /\ status_connected = "false"))

\* C16: the cumulative hash, share and block counters never decrease and are
\* never reset; only the end of a round in which the accelerator answered
\* changes them, so connection loss, handshake failure, accelerator
\* unavailability and reconnect leave them as they are; the hashes a round
\* reports are added to what was counted before.
C16_CountersStep ==
  /\ total_hashes' >= total_hashes
  /\ total_shares' >= total_shares
  /\ total_blocks' >= total_blocks
  /\ (~(pc = "round_end" /\ resp # Null /\ pc' = "mine")
        => UNCHANGED <<total_hashes, total_shares, total_blocks>>)
  /\ (pc = "round_end" /\ resp # Null /\ pc' = "mine"
        => total_hashes' = total_hashes
                + (IF resp.total_hashes > 0 THEN resp.total_hashes ELSE 0))

C16_CountersMonotonic == [][C16_CountersStep]_vars

\* A second session, after a reconnect, in a round whose accelerator call
\* was unavailable, with the first session's hashes and share still counted.
C16_Witness ==
  /\ session = 2 /\ roundsAtConnect = 1 /\ pc = "round_end" /\ resp = Null
  /\ total_hashes = 1 /\ total_shares = 1

\* ====================================================================
\* SpecMerkle: merkle_root(arr) over every short list of items
\* ====================================================================
MaxLeaves == 5        \* longest list given to merkle_root

\* The items of a list: strings, kept apart from digests and concatenations.
Item(x) == [item |-> x]
Items == {Item("a"), Item("b"), Item("c")}
EmptyString == Item("")

\* The lists merkle_root is called with.
MerkleInputs == UNION {[1..n -> Items] : n \in 0..MaxLeaves}

\* A tree that pairs an unpaired last element with itself.
MerkleCarry_Dup(x) == Sha256(Concat(x, x))

\* 'else: child.append(layer[i])': the unpaired last element as it is.
MerkleCarry(x) == x

\* 'for i in range(0, len(layer), 2)': the child layer, built from index i
\* (1-based) on.
RECURSIVE MerkleChild(_, _)
MerkleChild(l, i) ==
  IF i > Len(l) THEN <<>>
  ELSE IF i + 1 <= Len(l)
       THEN <<Sha256(Concat(l[i], l[i + 1]))>> \o MerkleChild(l, i + 2)
       ELSE <<MerkleCarry(l[i])>>

InitMerkle ==
  /\ InitProgram
  /\ arr \in MerkleInputs
  /\ layer = <<>>
  /\ mpc = "start"
  /\ diff = 1
  /\ limit_pool = Null
  /\ limit_gpu = Null
  /\ hpc = "idle"

\* 'if not arr: return sha256('')'
MerkleEmpty ==
  /\ mpc = "start"
  /\ arr = <<>>
  /\ layer' = <<Sha256(EmptyString)>>
  /\ mpc' = "done"
  /\ UNCHANGED <<arr, diff, limit_pool, limit_gpu, hpc>>
  /\ UNCHANGED <<minerVars, backoffVars, heapVars, gpuVars, auxVars>>

\* 'layer = [sha256(x) for x in arr]'
MerkleLeaves ==
  /\ mpc = "start"
  /\ arr # <<>>
  /\ layer' = [i \in 1..Len(arr) |-> Sha256(arr[i])]
  /\ mpc' = "loop"
  /\ UNCHANGED <<arr, diff, limit_pool, limit_gpu, hpc>>
  /\ UNCHANGED <<minerVars, backoffVars, heapVars, gpuVars, auxVars>>

\* One pass of 'while len(layer) > 1': layer = child.
MerklePass ==
  /\ mpc = "loop"
  /\ Len(layer) > 1
  /\ layer' = MerkleChild(layer, 1)
  /\ UNCHANGED <<arr, mpc, diff, limit_pool, limit_gpu, hpc>>
  /\ UNCHANGED <<minerVars, backoffVars, heapVars, gpuVars, auxVars>>

\* 'return layer[0]'
MerkleReturn ==
  /\ mpc = "loop"
  /\ Len(layer) <= 1
  /\ mpc' = "done"
  /\ UNCHANGED <<arr, layer, diff, limit_pool, limit_gpu, hpc>>
  /\ UNCHANGED <<minerVars, backoffVars, heapVars, gpuVars, auxVars>>

NextMerkle == MerkleEmpty \/ MerkleLeaves \/ MerklePass \/ MerkleReturn

SpecMerkle == InitMerkle /\ [][NextMerkle]_vars

\* H and the concatenation, as the claim writes them.
H(x) == [sha256 |-> x]
Cat(a, b) == [left |-> a, right |-> b]

\* One reduction of a layer, in closed form: position k of the next layer is
\* H(left || right) of the k-th pair, or the unpaired last element itself.
Reduced(l) ==
  [k \in 1..((Len(l) + 1) \div 2) |->
     IF 2 * k <= Len(l) THEN H(Cat(l[2 * k - 1], l[2 * k])) ELSE l[2 * k - 1]]

RECURSIVE ReduceToOne(_)
ReduceToOne(l) == IF Len(l) = 1 THEN l[1] ELSE ReduceToOne(Reduced(l))

\* The root the claim describes.
RootOf(a) ==
  IF a = <<>> THEN H(EmptyString)
  ELSE ReduceToOne([i \in 1..Len(a) |-> H(a[i])])

\* C18: merkle_root([]) = H(""), merkle_root([x]) = H(x), merkle_root([a,b])
\* = H(H(a) || H(b)); a third item is carried unchanged beside the first
\* pair; and for every list the root is the one value left after hashing
\* every item and reducing pairwise, the unpaired last element carried
\* forward as it is.  Every layer on the way holds half as many values,
\* rounded up.
C18_MerkleRoot ==
  /\ (mpc = "done"
        => /\ Len(layer) = 1
           /\ layer[1] = RootOf(arr)
           /\ (Len(arr) = 0 => layer[1] = H(EmptyString))
           /\ (Len(arr) = 1 => layer[1] = H(arr[1]))
           /\ (Len(arr) = 2 => layer[1] = H(Cat(H(arr[1]), H(arr[2]))))
           /\ (Len(arr) = 3
                 => layer[1] = H(Cat(H(Cat(H(arr[1]), H(arr[2]))), H(arr[3])))))
  /\ (mpc = "loop" => Len(layer) >= 1 /\ Len(layer) <= Len(arr))

\* The root of a list of five items: the fifth is carried through two layers.
C18_Witness ==
  /\ mpc = "done"
  /\ arr = <<Item("a"), Item("b"), Item("c"), Item("a"), Item("b")>>
  /\ layer[1].sha256.right = H(Item("b"))

\* ====================================================================
\* SpecTarget: the two hash_limit functions over a range of difficulties
\* ====================================================================
MaxDifficulty == 300   \* largest difficulty given to hash_limit
NegDifficulties == 3   \* difficulties below zero given to hash_limit

Difficulties == (0 - NegDifficulties)..MaxDifficulty

\* gpu_pool_miner.hash_limit: d = int(difficulty); '0' * 64 if d == 0;
\* otherwise HASH_COUNT // d, formatted.
GHashLimit(difficulty) ==
  LET d == difficulty IN
  IF d = 0 THEN [sign |-> "", digits |-> [i \in 1..HASH_SIZE |-> 0]]
  ELSE FormatHex(FloorDiv(HASH_COUNT, d), HASH_SIZE)

InitTarget ==
  /\ InitProgram
  /\ arr = <<>>
  /\ layer = <<>>
  /\ mpc = "idle"
  /\ diff \in Difficulties
  /\ limit_pool = Null
  /\ limit_gpu = Null
  /\ hpc = "start"

\* pool_miner: hash_limit(diff)
HashLimitPool ==
  /\ hpc = "start"
  /\ limit_pool' = HashLimit(diff)
  /\ hpc' = "pool"
  /\ UNCHANGED <<arr, layer, mpc, diff, limit_gpu>>
  /\ UNCHANGED <<minerVars, backoffVars, heapVars, gpuVars, auxVars>>

\* gpu_pool_miner: hash_limit(diff)
HashLimitGpu ==
  /\ hpc = "pool"
  /\ limit_gpu' = GHashLimit(diff)
  /\ hpc' = "done"
  /\ UNCHANGED <<arr, layer, mpc, diff, limit_pool>>
  /\ UNCHANGED <<minerVars, backoffVars, heapVars, gpuVars, auxVars>>

NextTarget == HashLimitPool \/ HashLimitGpu

SpecTarget == InitTarget /\ [][NextTarget]_vars

\* The number a formatted target stands for.
RECURSIVE DigitsValue(_)
DigitsValue(ds) ==
  IF ds = <<>> THEN 0
  ELSE 16 * DigitsValue(SubSeq(ds, 1, Len(ds) - 1)) + ds[Len(ds)]

TargetValue(t) ==
  IF t.sign = "-" THEN 0 - DigitsValue(t.digits) ELSE DigitsValue(t.digits)

\* target = (2^w - 1) div max(difficulty, 1), zero-padded to w / 4 digits.
TargetOf(d) == FormatHex((Pow(2, HashBits) - 1) \div Max(d, 1), HashBits \div 4)

\* What pool_miner.hash_limit keeps: the formula for every difficulty,
\* a difficulty below 1 treated like 1, and no larger target for a larger
\* difficulty.
PoolMinerHashLimit ==
  hpc \in {"pool", "done"}
    => /\ limit_pool = TargetOf(diff)
       /\ TargetValue(limit_pool) * Max(diff, 1) <= Pow(2, HashBits) - 1
       /\ (diff <= 1 => TargetValue(limit_pool) = Pow(2, HashBits) - 1)
       /\ \A e \in Difficulties :
            e >= diff => TargetValue(HashLimit(e)) <= TargetValue(limit_pool)

\* C19: both hash_limit functions return (2^w - 1) div max(difficulty, 1)
\* for every integer difficulty: a difficulty of 0 is treated like 1, and
\* the target does not grow with the difficulty.
C19_TargetFormula ==
  hpc = "done"
    => /\ limit_pool = TargetOf(diff)
       /\ limit_gpu = TargetOf(diff)
       /\ \A e \in Difficulties :
            e >= diff => TargetValue(GHashLimit(e)) <= TargetValue(limit_gpu)

\* C20: the Receiver Loop makes a pass only while the connection is marked
\* connected; a pass never dials, never writes a request (no subscribe, no
\* authorize) and never moves the main thread; a pass that finds the stream
\* closed and drained marks the connection lost; and once the connection is
\* marked lost the loop takes no further pass: all it can do is end.
C20_RecvStep ==
  /\ (RecvThreadStep
        => /\ connected /\ running
           /\ UNCHANGED <<sock, session, msg_id, requests, lastSentId, pc,
                          subRet, authRet, recv_alive>>
           /\ Written = <<>>
           /\ (peerClosed /\ wire = <<>> => ~connected'))
  /\ (RecvThreadExit => ~connected \/ ~running)

C20_ReceiverStopsOnLoss ==
  /\ [][C20_RecvStep]_vars
  /\ [](recv_alive /\ ~connected => ENABLED RecvThreadExit)

\* The Receiver Loop has marked the connection lost and has ended, while the
\* main thread has not yet looked at the flag and no write has failed.
C20_Witness ==
  /\ pc = "mine" /\ running /\ peerClosed /\ ~writeFailed
  /\ ~connected /\ ~recv_alive /\ sock = "open"

\* ====================================================================
\* Mining rounds: which rounds call the accelerator, and block candidates
\* ====================================================================
\* A step of the Mining Loop that calls the accelerator.
AcceleratorCall == pc = "mine" /\ pc' = "gpu"

\* The timestamp of a round that calls the accelerator is later than the
\* timestamp of every earlier round, and it is the one the round keeps for
\* its prefix and its submit.
FreshTimestamp ==
  /\ [][AcceleratorCall =>
          /\ rounds' = rounds + 1
          /\ timestamp' > rounds
          /\ timestamp' <= rounds'
          /\ job' = GetJob(current_job)
          /\ last_job_id' = job'.job_id]_vars
  /\ [](pc \in {"gpu", "round_end"} => timestamp = rounds /\ job # Null)

\* C21 (as the code has it): a round calls the accelerator whenever the
\* loop condition holds and the Job Store holds a job, also when the job
\* identifier equals that of the round just completed (last_job_id only
\* decides whether the job is logged); every round that calls the
\* accelerator builds its prefix from a timestamp taken in that round.
C21_RoundsAlwaysMine ==
  /\ FreshTimestamp
  /\ [](pc = "mine" /\ MiningLoopCond(shutdown, connected)
        /\ current_job # Null /\ rounds < MaxRounds
        => ENABLED <<RoundStart>>_vars)

\* Two rounds of one session have called the accelerator although the pool
\* has issued one job only.
C21_Witness ==
  /\ pc = "gpu"
  /\ rounds = 2
  /\ roundsAtConnect = 0
  /\ jobsIssued = 1
  /\ last_job_id = job.job_id

\* C21 as claimed: no accelerator call when the snapshot's job identifier
\* equals that of the round just completed; a fresh timestamp otherwise.
C21_SkipUnchangedJob ==
  /\ [][AcceleratorCall => job'.job_id # last_job_id]_vars
  /\ FreshTimestamp

\* The round at its end whose accelerator response reports a nonce.
FoundRound == pc = "round_end" /\ resp # Null /\ resp.result = "found"

\* Whether the digest of the round's nonce is numerically at most the block
\* target (2^HashBits - 1) div max(difficulty, 1).
NumericallyMeets ==
  DigestValue(rounds) <= HASH_COUNT \div (IF job.difficulty >= 1
                                          THEN job.difficulty ELSE 1)

C22_ClassifyStep ==
  /\ (FoundRound /\ pc' = "mine" =>
        /\ total_shares' = total_shares + 1
        /\ total_blocks' = IF NumericallyMeets THEN total_blocks + 1
                           ELSE total_blocks)
  /\ (total_blocks' # total_blocks =>
        /\ FoundRound
        /\ total_blocks' = total_blocks + 1
        /\ total_shares' = total_shares + 1)

\* C22: a found result is counted as a block exactly when the digest of
\* prefix and nonce is numerically at most the block target of the job's
\* difficulty, and as a share in any case; the block counter grows only in
\* rounds in which the share counter grows, and blocks <= shares.
C22_BlockIffMeetsTarget ==
  /\ [][C22_ClassifyStep]_vars
  /\ [](total_blocks <= total_shares)

\* One found round was a share only and another one was a block.
C22_Witness ==
  /\ pc = "mine"
  /\ rounds = 2
  /\ total_shares = 2
  /\ total_blocks = 1


\* ====================================================================
\* SpecAccel: the accelerator client gpu_mine_round
\* ====================================================================
MaxCalls == 2     \* calls of gpu_mine_round
MaxBuf == 3       \* bytes the accelerator sends in one call

\* The bytes of the accelerator's answer by what they do to the decoding:
\* "j" is a byte of a JSON object's text, "g" a byte that makes the line
\* invalid JSON, "u" a byte that is not UTF-8, "nl" the newline.
AccelBytes == {"j", "g", "u", "nl"}

\* What one sock.recv(8192) can return: one or two bytes.
AccelChunks ==
  {<<b>> : b \in AccelBytes} \cup {<<b, c>> : b \in AccelBytes, c \in AccelBytes}

HasNewline(bs) == \E k \in 1..Len(bs) : bs[k] = "nl"

\* buf.split(b'\n', 1)[0]
RECURSIVE FirstLine(_)
FirstLine(bs) ==
  IF bs = <<>> \/ Head(bs) = "nl" THEN <<>>
  ELSE <<Head(bs)>> \o FirstLine(Tail(bs))

\* json.loads(line.decode()): UnicodeDecodeError for a byte that is not
\* UTF-8 (decode runs first), JSONDecodeError for an empty or invalid text,
\* the parsed value otherwise.
AccelDecode(line) ==
  IF \E k \in 1..Len(line) : line[k] = "u" THEN "UnicodeDecodeError"
  ELSE IF line = <<>> \/ \E k \in 1..Len(line) : line[k] = "g"
       THEN "JSONDecodeError"
       ELSE "ok"

\* A finally clause that leaves the socket open.
AccelFinally_Leak(open) == open

\* 'finally: sock.close()'
AccelFinally(open) == open - 1

\* socket(), settimeout(), connect(): on failure the function returns None
\* before a channel exists.
AccelConnect ==
  /\ apc = "idle"
  /\ acalls < MaxCalls
  /\ acalls' = acalls + 1
  /\ asent' = 0
  /\ abuf' = <<>>
  /\ \E ok \in BOOLEAN :
       IF ok
       THEN aopen' = aopen + 1 /\ apc' = "send" /\ aret' = Pending
       ELSE aopen' = aopen /\ apc' = "idle" /\ aret' = Null
  /\ UNCHANGED <<minerVars, backoffVars, heapVars, gpuVars, pureVars, frameVars, lockVars, superVars, reportVars, proxyVars>>

\* sock.sendall(request line); an OSError returns None through finally.
AccelSend ==
  /\ apc = "send"
  /\ \E ok \in BOOLEAN :
       IF ok
       THEN asent' = asent + 1 /\ apc' = "read" /\ UNCHANGED <<aopen, aret>>
       ELSE /\ aret' = Null
            /\ aopen' = AccelFinally(aopen)
            /\ apc' = "idle"
            /\ asent' = asent
  /\ UNCHANGED <<abuf, acalls>>
  /\ UNCHANGED <<minerVars, backoffVars, heapVars, gpuVars, pureVars, frameVars, lockVars, superVars, reportVars, proxyVars>>

\* One pass of 'while b"\n" not in buf': recv times out, returns nothing
\* (the accelerator closed) or returns a chunk; with a newline in buf the
\* first line is decoded and returned.  Every way out runs finally.
AccelRecv ==
  /\ apc = "read"
  /\ \/ \E ev \in {"timeout", "closed"} :
          /\ aret' = Null
          /\ abuf' = abuf
          /\ aopen' = AccelFinally(aopen)
          /\ apc' = "idle"
     \/ \E chunk \in AccelChunks :
          /\ Len(abuf) + Len(chunk) <= MaxBuf
          /\ abuf' = abuf \o chunk
          /\ IF HasNewline(abuf')
             THEN LET line == FirstLine(abuf')
                      d == AccelDecode(line)
                  IN /\ aret' = IF d = "ok" THEN [line |-> line]
                                ELSE IF d = "JSONDecodeError" THEN Null
                                ELSE [raised |-> d]
                     /\ aopen' = AccelFinally(aopen)
                     /\ apc' = "idle"
             ELSE UNCHANGED <<aret, aopen, apc>>
  /\ UNCHANGED <<asent, acalls>>
  /\ UNCHANGED <<minerVars, backoffVars, heapVars, gpuVars, pureVars, frameVars, lockVars, superVars, reportVars, proxyVars>>

NextAccel == AccelConnect \/ AccelSend \/ AccelRecv

SpecAccel == Init /\ [][NextAccel]_vars

\* What holds of the channel at every moment of a call and between calls.
AccelChannelInv ==
  /\ aopen \in {0, 1}
  /\ (apc = "idle" => aopen = 0)
  /\ (apc \in {"send", "read"} => aopen = 1)
  /\ asent <= 1
  /\ (apc = "read" => asent = 1 /\ ~HasNewline(abuf))

\* A call that returns a response returns the first complete line, after
\* one request line.
AccelReturnStep ==
  (apc # "idle" /\ apc' = "idle" /\ "line" \in DOMAIN aret') =>
     /\ asent' = 1
     /\ HasNewline(abuf')
     /\ aret'.line = FirstLine(abuf')
     /\ ~HasNewline(abuf)

\* C23: each accelerator call opens one channel, sends one request line,
\* returns after the first complete response line or a failure, and has
\* closed the channel whenever it has ended; at most one channel is open.
C23_OneChannelPerCall ==
  /\ []AccelChannelInv
  /\ [][AccelReturnStep]_vars

\* The second call has returned a two-byte response line and has closed
\* its channel.
C23_Witness ==
  /\ acalls = 2
  /\ apc = "idle"
  /\ aret = [line |-> <<"j", "j">>]
  /\ abuf = <<"j", "j", "nl">>
  /\ aopen = 0


\* ====================================================================
\* SpecFraming: _recv_lines on a byte stream, and what reads its messages
\* ====================================================================
MaxStream == 4    \* bytes the pool sends on the connection

\* The bytes of the stream by what they make of their line: "k" is a byte
\* of a mining.notify object with a complete job, "h" of a mining.notify
\* whose params lack 'height', "m" of a mining.notify without 'params',
\* "n" a digit (a line of digits is the JSON number), "g" a byte that makes
\* the line invalid JSON, "u" a byte that is not UTF-8, "sp" a blank and
\* "nl" the newline.
StreamBytes == {"k", "h", "m", "n", "g", "u", "sp", "nl"}

\* buf.split(b'\n', 1)[1]
RECURSIVE AfterFirstNewline(_)
AfterFirstNewline(bs) ==
  IF bs = <<>> THEN <<>>
  ELSE IF Head(bs) = "nl" THEN Tail(bs)
  ELSE AfterFirstNewline(Tail(bs))

\* bytes.strip()
RECURSIVE StripLeft(_)
StripLeft(bs) ==
  IF bs # <<>> /\ Head(bs) = "sp" THEN StripLeft(Tail(bs)) ELSE bs

RECURSIVE StripRight(_)
StripRight(bs) ==
  IF bs # <<>> /\ bs[Len(bs)] = "sp"
  THEN StripRight(SubSeq(bs, 1, Len(bs) - 1)) ELSE bs

Strip(bs) == StripRight(StripLeft(bs))

LineBytes(line) == {line[k] : k \in 1..Len(line)}

\* json.loads(line.decode()) on a line that is not blank: the exception it
\* raises, or the kind of value it returns.
LineDecode(line) ==
  LET S == LineBytes(line) \ {"sp"} IN
  IF "u" \in S THEN "UnicodeDecodeError"
  ELSE IF "g" \in S THEN "JSONDecodeError"
  ELSE IF S = {"n"}
       THEN IF "sp" \in LineBytes(Strip(line)) THEN "JSONDecodeError"
            ELSE "number"
       ELSE IF "m" \in S THEN "notify_no_params"
       ELSE IF "h" \in S THEN "notify_no_height"
       ELSE "notify"

\* 'lines.append(json.loads(line.decode()))'
DrainKeep(acc, line) == Append(acc, line)

\* 'while b"\n" in self.buf: line, self.buf = self.buf.split(b"\n", 1);
\*  if line.strip(): try: lines.append(json.loads(line.decode()))
\*  except json.JSONDecodeError: pass'.  UnicodeDecodeError is not a
\* JSONDecodeError: it leaves the loop with the line already taken off buf.
RECURSIVE DrainLines(_, _)
DrainLines(b, acc) ==
  IF ~HasNewline(b) THEN [lines |-> acc, rest |-> b, exc |-> "none"]
  ELSE LET line == FirstLine(b)
           rest == AfterFirstNewline(b)
       IN IF Strip(line) = <<>> THEN DrainLines(rest, acc)
          ELSE LET d == LineDecode(line) IN
               IF d = "UnicodeDecodeError"
               THEN [lines |-> acc, rest |-> rest, exc |-> d]
               ELSE IF d = "JSONDecodeError" THEN DrainLines(rest, acc)
               ELSE DrainLines(rest, DrainKeep(acc, line))

\* The job a mining.notify line carries.
FrameJob(line) ==
  IF LineDecode(line) = "notify" THEN [job_id |-> 1, height |-> 101]
  ELSE [job_id |-> 1]

\* 'for line in lines: if line.get("method") == "mining.notify":
\*  self._handle_notify(line["params"])': .get on a value that is not a dict
\* raises AttributeError, a notify without 'params' raises KeyError.
RECURSIVE ProcessNotify(_, _)
ProcessNotify(lines, j) ==
  IF lines = <<>> THEN [job |-> j, exc |-> "none"]
  ELSE LET d == LineDecode(Head(lines)) IN
       IF d = "number" THEN [job |-> j, exc |-> "AttributeError"]
       ELSE IF d = "notify_no_params" THEN [job |-> j, exc |-> "KeyError"]
       ELSE ProcessNotify(Tail(lines), FrameJob(Head(lines)))

\* The drain loop after one more recv: 'self.buf += chunk', then the loop.
DrainMore(d, chunk) ==
  IF d.exc # "none" THEN d ELSE DrainLines(d.rest \o chunk, d.lines)

\* The reads of one call of _recv_lines on buffer b: the lines already in
\* the buffer, then the first recv, which returns chunk1 (nothing: the wait
\* timed out).
FirstRecv(b, chunk1) ==
  IF chunk1 = <<>> THEN DrainLines(b, <<>>)
  ELSE DrainMore(DrainLines(b, <<>>), chunk1)

\* 'if lines:' after the first recv: the quick second recv is made.
SecondRecvMade(d, chunk1) ==
  chunk1 # <<>> /\ d.exc = "none" /\ d.lines # <<>>

\* The quick second recv returns chunk2 (nothing: socket.timeout or b'').
SecondRecv(d, chunk1, chunk2) ==
  IF SecondRecvMade(d, chunk1) /\ chunk2 # <<>> THEN DrainMore(d, chunk2)
  ELSE d

\* The end of _recv_lines: the notify pass over the lines and the return.
RecvReturn(d, n) ==
  [lines |-> IF n.exc = "none" THEN d.lines ELSE <<>>,
   buf |-> d.rest, job |-> n.job, exc |-> n.exc]

RecvFinish(d, j) ==
  IF d.exc # "none" THEN [lines |-> <<>>, buf |-> d.rest, job |-> j,
                          exc |-> d.exc]
  ELSE RecvReturn(d, ProcessNotify(d.lines, j))

\* One call of _recv_lines on buffer b with the job j.
RecvLines(b, j, chunk1, chunk2) ==
  RecvFinish(SecondRecv(FirstRecv(b, chunk1), chunk1, chunk2), j)

\* What a call leaves behind: the buffer, the job, the returned lines, and
\* where an exception went.  An exception in the main thread has no
\* handler; recv_thread's 'except Exception' marks the connection lost.
FRecvStore(r, caller) ==
  /\ fbuf' = r.buf
  /\ fjob' = r.job
  /\ fyield' = fyield \o r.lines
  /\ fcrash' = IF r.exc = "none" THEN "none" ELSE caller

\* The pool writes one more byte to the connection.
FPoolSend ==
  /\ fcrash = "none"
  /\ Len(fread) + Len(fwire) < MaxStream
  /\ \E b \in StreamBytes : fwire' = Append(fwire, b)
  /\ UNCHANGED <<fread, fbuf, fyield, fjob, fmined, fcrash>>
  /\ UNCHANGED <<minerVars, backoffVars, heapVars, gpuVars, pureVars, accelVars, lockVars, superVars, reportVars, proxyVars>>

\* One call of _recv_lines, made by subscribe/authorize/the wait for the
\* first job in the main thread ("handshake") or by recv_thread
\* ("receiver"): the first recv takes k1 of the bytes in flight, the second
\* one k2.
FRecvLines ==
  /\ fcrash = "none"
  /\ \E caller \in {"handshake", "receiver"} :
     \E k1 \in 0..Len(fwire) :
     \E k2 \in 0..(Len(fwire) - k1) :
       /\ (k2 > 0 =>
             SecondRecvMade(FirstRecv(fbuf, SubSeq(fwire, 1, k1)),
                            SubSeq(fwire, 1, k1)))
       /\ fwire' = SubSeq(fwire, k1 + k2 + 1, Len(fwire))
       /\ fread' = fread \o SubSeq(fwire, 1, k1 + k2)
       /\ FRecvStore(RecvLines(fbuf, fjob, SubSeq(fwire, 1, k1),
                               SubSeq(fwire, k1 + 1, k1 + k2)), caller)
  /\ UNCHANGED fmined
  /\ UNCHANGED <<minerVars, backoffVars, heapVars, gpuVars, pureVars, accelVars, lockVars, superVars, reportVars, proxyVars>>

MaxFrameRounds == 1

\* The head of a mining round: job = client.get_job(), then job['height']
\* (and the other fields) by subscript.
FMineRound ==
  /\ fcrash = "none"
  /\ fjob # Null
  /\ fmined < MaxFrameRounds
  /\ IF "height" \in DOMAIN fjob
     THEN fmined' = fmined + 1 /\ fcrash' = fcrash
     ELSE fmined' = fmined /\ fcrash' = "mining"
  /\ UNCHANGED <<fwire, fread, fbuf, fyield, fjob>>
  /\ UNCHANGED <<minerVars, backoffVars, heapVars, gpuVars, pureVars, accelVars, lockVars, superVars, reportVars, proxyVars>>

NextFraming == FPoolSend \/ FRecvLines \/ FMineRound

SpecFraming == Init /\ [][NextFraming]_vars

\* The non-blank lines of a byte sequence that are newline-terminated and
\* well-formed JSON, in order.
RECURSIVE WellFormedLines(_)
WellFormedLines(bs) ==
  IF ~HasNewline(bs) THEN <<>>
  ELSE LET line == FirstLine(bs)
           ok == /\ Strip(line) # <<>>
                 /\ LineDecode(line) \notin {"UnicodeDecodeError",
                                             "JSONDecodeError"}
       IN (IF ok THEN <<line>> ELSE <<>>)
          \o WellFormedLines(AfterFirstNewline(bs))

\* The bytes after the last newline.
RECURSIVE Leftover(_)
Leftover(bs) ==
  IF ~HasNewline(bs) THEN bs ELSE Leftover(AfterFirstNewline(bs))

FramingExact ==
  /\ fyield = WellFormedLines(fread)
  /\ fbuf = Leftover(fread)

\* C24: however the stream is split into reads, the messages yielded by the
\* calls of _recv_lines are exactly the non-blank well-formed
\* newline-terminated JSON lines read so far, in order and once each, and
\* the bytes after the last newline stay in the buffer.
C24_FramingExact == FramingExact

\* What _recv_lines keeps: the same, on streams whose well-formed lines are
\* all objects with the fields _recv_lines reads and which are valid UTF-8.
FramingExactOnObjects ==
  (LineBytes(fread) \cap {"u", "n", "m"} = {}) => FramingExact


\* C28: a pool message that lacks a required field or is not an object is
\* discarded as a protocol error: no call of _recv_lines in the handshake or
\* in the Receiver Loop and no mining round ends with an exception that
\* nothing handles.
C28_MalformedMessageDiscarded == fcrash \notin {"handshake", "mining"}


\* ====================================================================
\* SpecLock: the job lock, statement by statement
\* ====================================================================
MaxNotifies == 3      \* mining.notify messages the receiver stores

\* The statements that block on the network, the accelerator, a file or
\* the clock.
BlockingStatements == {"recv", "log", "sleep", "gpu", "status", "submit"}

\* A _handle_notify that logs inside the with block.
LockAfterSwap_Held(holder) == holder

\* The end of 'with self.job_lock: self.current_job = params'.
LockAfterSwap(holder) == "none"

\* _recv_lines: sock.recv returns a mining.notify.
LRecv ==
  /\ lk_recv = "recv"
  /\ lk_n < MaxNotifies
  /\ lk_n' = lk_n + 1
  /\ lk_recv' = "acquire"
  /\ UNCHANGED <<job_lock, lk_main, lk_job, lk_snap>>
  /\ UNCHANGED <<minerVars, backoffVars, heapVars, gpuVars, pureVars, accelVars, frameVars, superVars, reportVars, proxyVars>>

\* _handle_notify: 'with self.job_lock:' is entered.
LNotifyAcquire ==
  /\ lk_recv = "acquire"
  /\ job_lock = "none"
  /\ job_lock' = "receiver"
  /\ lk_recv' = "swap"
  /\ UNCHANGED <<lk_main, lk_job, lk_snap, lk_n>>
  /\ UNCHANGED <<minerVars, backoffVars, heapVars, gpuVars, pureVars, accelVars, frameVars, superVars, reportVars, proxyVars>>

\* _handle_notify: 'self.current_job = params', and the with block ends.
LNotifySwap ==
  /\ lk_recv = "swap"
  /\ lk_job' = lk_n
  /\ job_lock' = LockAfterSwap(job_lock)
  /\ lk_recv' = "log"
  /\ UNCHANGED <<lk_main, lk_snap, lk_n>>
  /\ UNCHANGED <<minerVars, backoffVars, heapVars, gpuVars, pureVars, accelVars, frameVars, superVars, reportVars, proxyVars>>

\* _handle_notify: log.info('New job: ...'), and the function returns.
LNotifyLog ==
  /\ lk_recv = "log"
  /\ job_lock' = IF job_lock = "receiver" THEN "none" ELSE job_lock
  /\ lk_recv' = "recv"
  /\ UNCHANGED <<lk_main, lk_job, lk_snap, lk_n>>
  /\ UNCHANGED <<minerVars, backoffVars, heapVars, gpuVars, pureVars, accelVars, frameVars, superVars, reportVars, proxyVars>>

\* get_job: 'with self.job_lock:' is entered.
LGetAcquire ==
  /\ lk_main = "get_job"
  /\ job_lock = "none"
  /\ job_lock' = "main"
  /\ lk_main' = "copy"
  /\ UNCHANGED <<lk_recv, lk_job, lk_snap, lk_n>>
  /\ UNCHANGED <<minerVars, backoffVars, heapVars, gpuVars, pureVars, accelVars, frameVars, superVars, reportVars, proxyVars>>

\* get_job: 'return self.current_job.copy() if self.current_job else None';
\* without a job the loop sleeps 0.5 s, with one it calls the accelerator.
LGetCopy ==
  /\ lk_main = "copy"
  /\ lk_snap' = lk_job
  /\ job_lock' = "none"
  /\ lk_main' = IF lk_job = 0 THEN "sleep" ELSE "gpu"
  /\ UNCHANGED <<lk_recv, lk_job, lk_n>>
  /\ UNCHANGED <<minerVars, backoffVars, heapVars, gpuVars, pureVars, accelVars, frameVars, superVars, reportVars, proxyVars>>

\* The rest of the round: time.sleep, gpu_mine_round, write_status,
\* submit_share / report_hashrate, one after the other.
LMainBlocking ==
  /\ lk_main \in {"sleep", "gpu", "status", "submit"}
  /\ lk_main' = CASE lk_main = "sleep" -> "get_job"
                  [] lk_main = "gpu" -> "status"
                  [] lk_main = "status" -> "submit"
                  [] lk_main = "submit" -> "get_job"
  /\ UNCHANGED <<job_lock, lk_recv, lk_job, lk_snap, lk_n>>
  /\ UNCHANGED <<minerVars, backoffVars, heapVars, gpuVars, pureVars, accelVars, frameVars, superVars, reportVars, proxyVars>>

NextLock ==
  \/ LRecv \/ LNotifyAcquire \/ LNotifySwap \/ LNotifyLog
  \/ LGetAcquire \/ LGetCopy \/ LMainBlocking

SpecLock == Init /\ [][NextLock]_vars

\* C25: the job lock is held only for the swap in _handle_notify and the
\* copy in get_job: the thread that holds it is at no statement that blocks
\* on a socket, the accelerator, a file or a sleep, so a thread that waits
\* for the lock waits for an in-memory statement only.
C25_LockOnlyInMemory ==
  /\ (job_lock = "receiver" =>
        lk_recv = "swap" /\ lk_recv \notin BlockingStatements)
  /\ (job_lock = "main" =>
        lk_main = "copy" /\ lk_main \notin BlockingStatements)
  /\ (lk_recv \in BlockingStatements \/ lk_recv = "acquire" =>
        job_lock # "receiver")
  /\ (lk_main \in BlockingStatements \/ lk_main = "get_job" =>
        job_lock # "main")

\* The Mining Loop, which has taken a snapshot before, waits for the lock
\* while the receiver holds it for the second job.
C25_Witness ==
  /\ job_lock = "receiver"
  /\ lk_main = "get_job"
  /\ lk_snap = 1
  /\ lk_n = 2


\* ====================================================================
\* SpecSupervisor: the waits of mine_with_pool and the receiver threads
\* ====================================================================
MaxSupSessions == 2      \* clients mine_with_pool constructs
RECV_TIMEOUT == 5        \* recv_thread: self._recv_lines(5.0)
ACCEL_RETRY_SLEEP == 2   \* time.sleep(2) after gpu_mine_round returned None

otherThanSuper ==
  <<minerVars, backoffVars, heapVars, gpuVars, pureVars, accelVars,
    frameVars, lockVars, reportVars, proxyVars>>

\* A wait of n seconds as one call time.sleep(n).
SleepWhole(n) == [iter |-> 0, in |-> TRUE, sleep |-> n]

\* A wait of n seconds as 'for _ in range(n): if _shutdown: break;
\* time.sleep(1)', before its first iteration.
SleepIncremental(n) == [iter |-> n, in |-> FALSE, sleep |-> 0]

\* 'time.sleep(2)' after gpu_mine_round returned None.
AccelWait == SleepWhole(ACCEL_RETRY_SLEEP)

\* 'time.sleep(RECONNECT_DELAY)' after a failed subscribe, authorize or
\* wait for the first job.
HandshakeFailWait == SleepWhole(RECONNECT_DELAY)

\* The wait begins.
BeginWait(w) ==
  /\ s_iter' = w.iter
  /\ s_in' = w.in
  /\ s_sleep' = w.sleep
  /\ s_after' = 0

\* Where mine_with_pool goes on after a wait.
AfterWait(p) == IF p = "accel_sleep" THEN "mine" ELSE "top"

\* 'while not _shutdown:' holds: StratumClient(...), client.connect().
\* A failed connect begins the backoff wait.
SupNewClient ==
  /\ s_pc = "top"
  /\ ~s_shutdown
  /\ s_sessions < MaxSupSessions
  /\ s_sessions' = s_sessions + 1
  /\ \E ok \in BOOLEAN :
       IF ok
       THEN /\ s_open' = s_open + 1
            /\ s_connected' = TRUE
            /\ s_pc' = "handshake"
            /\ UNCHANGED <<s_in, s_sleep, s_iter, s_after>>
       ELSE /\ s_pc' = "backoff"
            /\ BeginWait(SleepIncremental(RECONNECT_DELAY))
            /\ UNCHANGED <<s_open, s_connected>>
  /\ UNCHANGED <<s_shutdown, s_cur, s_cur_left, s_old, s_old_left>>
  /\ UNCHANGED otherThanSuper

\* 'while not _shutdown:' fails: the final write_status and the return; the
\* daemon threads end with the process.
SupStopped ==
  /\ s_pc = "top"
  /\ s_shutdown
  /\ s_pc' = "done"
  /\ s_cur' = "none"
  /\ s_old' = "none"
  /\ UNCHANGED <<s_shutdown, s_in, s_sleep, s_iter, s_after, s_open,
                 s_connected, s_cur_left, s_old_left, s_sessions>>
  /\ UNCHANGED otherThanSuper

\* subscribe, authorize and the wait for the first job.  On failure:
\* client.disconnect(); time.sleep(RECONNECT_DELAY); continue.  On success
\* the receiver thread is started and the Mining Loop entered.
SupHandshake ==
  /\ s_pc = "handshake"
  /\ \E ok \in BOOLEAN :
       IF ok
       THEN /\ s_cur' = "ready"
            /\ s_pc' = "mine"
            /\ UNCHANGED <<s_in, s_sleep, s_iter, s_after, s_open,
                           s_connected>>
       ELSE /\ s_connected' = FALSE
            /\ s_open' = s_open - 1
            /\ s_pc' = "fail_sleep"
            /\ BeginWait(HandshakeFailWait)
            /\ s_cur' = s_cur
  /\ UNCHANGED <<s_shutdown, s_cur_left, s_old, s_old_left, s_sessions>>
  /\ UNCHANGED otherThanSuper

\* One round of 'while not _shutdown and client.connected:' that changes
\* what the supervisor sees: the accelerator is not available (sleep 2 s,
\* continue), or a send fails (_send sets connected = False).
SupRound ==
  /\ s_pc = "mine"
  /\ ~s_shutdown /\ s_connected
  /\ \/ /\ s_pc' = "accel_sleep"
        /\ BeginWait(AccelWait)
        /\ s_connected' = s_connected
     \/ /\ s_connected' = FALSE
        /\ UNCHANGED <<s_pc, s_in, s_sleep, s_iter, s_after>>
  /\ UNCHANGED <<s_shutdown, s_open, s_cur, s_cur_left, s_old, s_old_left,
                 s_sessions>>
  /\ UNCHANGED otherThanSuper

\* The Mining Loop's condition fails: client.running = False,
\* client.disconnect(), and the wait 'for _ in range(RECONNECT_DELAY)'
\* begins.  The receiver thread is not joined: it stays what it is, now as
\* the thread of the previous client.
SupMiningExit ==
  /\ s_pc = "mine"
  /\ s_shutdown \/ ~s_connected
  /\ s_old = "none"
  /\ s_connected' = FALSE
  /\ s_open' = s_open - 1
  /\ s_old' = s_cur
  /\ s_old_left' = s_cur_left
  /\ s_cur' = "none"
  /\ s_cur_left' = 0
  /\ s_pc' = "loss_wait"
  /\ BeginWait(SleepIncremental(RECONNECT_DELAY))
  /\ UNCHANGED <<s_shutdown, s_sessions>>
  /\ UNCHANGED otherThanSuper

\* The head of an iteration of an incremental wait: the range is used up or
\* the flag is set (the loop ends), or time.sleep(1) is called.  After a
\* wait made of one time.sleep call (no iterations) this is the statement
\* that follows the call.
SupLoopCheck ==
  /\ s_pc \in {"backoff", "loss_wait", "accel_sleep", "fail_sleep"}
  /\ ~s_in
  /\ IF s_iter = 0 \/ s_shutdown
     THEN /\ s_pc' = AfterWait(s_pc)
          /\ s_iter' = 0
          /\ UNCHANGED <<s_in, s_sleep>>
     ELSE /\ s_in' = TRUE
          /\ s_sleep' = 1
          /\ s_iter' = s_iter - 1
          /\ s_pc' = s_pc
  /\ UNCHANGED <<s_shutdown, s_after, s_open, s_connected, s_cur,
                 s_cur_left, s_old, s_old_left, s_sessions>>
  /\ UNCHANGED otherThanSuper

\* time.sleep returns when its time is up.
SupWake ==
  /\ s_in
  /\ s_sleep = 0
  /\ s_in' = FALSE
  /\ UNCHANGED <<s_pc, s_shutdown, s_sleep, s_iter, s_after, s_open,
                 s_connected, s_cur, s_cur_left, s_old, s_old_left,
                 s_sessions>>
  /\ UNCHANGED otherThanSuper

\* recv_thread of the current client at 'while self.running and
\* self.connected:': the next _recv_lines(5.0) blocks in sock.recv, or the
\* thread ends.
SupThreadLoop ==
  /\ s_cur = "ready"
  /\ IF s_connected
     THEN s_cur' = "blocked" /\ s_cur_left' = RECV_TIMEOUT
     ELSE s_cur' = "none" /\ s_cur_left' = 0
  /\ UNCHANGED <<s_pc, s_shutdown, s_in, s_sleep, s_iter, s_after, s_open,
                 s_connected, s_old, s_old_left, s_sessions>>
  /\ UNCHANGED otherThanSuper

\* sock.recv of the current client's thread returns: its time is up, data
\* has arrived, or the pool has closed the connection (connected = False).
SupThreadWake ==
  /\ s_cur = "blocked"
  /\ s_cur' = "ready"
  /\ \E closed \in BOOLEAN : s_connected' = (s_connected /\ ~closed)
  /\ UNCHANGED <<s_pc, s_shutdown, s_in, s_sleep, s_iter, s_after, s_open,
                 s_cur_left, s_old, s_old_left, s_sessions>>
  /\ UNCHANGED otherThanSuper

\* sock.recv of the previous client's thread returns: its time is up, or
\* the close of its socket has woken it.
SupOldWake ==
  /\ s_old = "blocked"
  /\ s_old' = "ready"
  /\ UNCHANGED <<s_pc, s_shutdown, s_in, s_sleep, s_iter, s_after, s_open,
                 s_connected, s_cur, s_cur_left, s_old_left, s_sessions>>
  /\ UNCHANGED otherThanSuper

\* The previous client's thread finds running = False (or fails on the
\* closed socket) and ends.
SupOldExit ==
  /\ s_old = "ready"
  /\ s_old' = "none"
  /\ s_old_left' = 0
  /\ UNCHANGED <<s_pc, s_shutdown, s_in, s_sleep, s_iter, s_after, s_open,
                 s_connected, s_cur, s_cur_left, s_sessions>>
  /\ UNCHANGED otherThanSuper

\* One second passes.  No time.sleep and no recv outlasts its time, and a
\* thread that can run does so within the second.
SupTick ==
  /\ s_pc # "done"
  /\ s_in \/ s_cur = "blocked" \/ s_old = "blocked"
  /\ s_in => s_sleep > 0
  /\ s_cur = "blocked" => s_cur_left > 0
  /\ s_old = "blocked" => s_old_left > 0
  /\ s_cur # "ready" /\ s_old # "ready"
  /\ s_sleep' = IF s_in THEN s_sleep - 1 ELSE s_sleep
  /\ s_cur_left' = IF s_cur = "blocked" THEN s_cur_left - 1 ELSE s_cur_left
  /\ s_old_left' = IF s_old = "blocked" THEN s_old_left - 1 ELSE s_old_left
  /\ s_after' = IF s_in /\ s_shutdown THEN s_after + 1 ELSE s_after
  /\ UNCHANGED <<s_pc, s_shutdown, s_in, s_iter, s_open, s_connected, s_cur,
                 s_old, s_sessions>>
  /\ UNCHANGED otherThanSuper

\* SIGINT or SIGTERM: signal_handler sets _shutdown; a time.sleep that is
\* under way goes on to its end.
SupSignal ==
  /\ s_pc # "done"
  /\ ~s_shutdown
  /\ s_shutdown' = TRUE
  /\ UNCHANGED <<s_pc, s_in, s_sleep, s_iter, s_after, s_open, s_connected,
                 s_cur, s_cur_left, s_old, s_old_left, s_sessions>>
  /\ UNCHANGED otherThanSuper

NextSupervisor ==
  \/ SupNewClient \/ SupStopped \/ SupHandshake \/ SupRound
  \/ SupMiningExit \/ SupLoopCheck \/ SupWake
  \/ SupThreadLoop \/ SupThreadWake \/ SupOldWake \/ SupOldExit
  \/ SupTick \/ SupSignal

SpecSupervisor == Init /\ [][NextSupervisor]_vars

\* C26: every wait of mine_with_pool longer than about one second is made in
\* increments of at most one second with the flag checked between them: no
\* wait goes on for more than one increment after the flag is set.
C26_WaitsStopWithinOneIncrement == s_after <= 1

\* What the two incremental waits (connect backoff, connection loss) keep.
IncrementalWaitsStopWithinOneIncrement ==
  s_pc \in {"backoff", "loss_wait"} => s_after <= 1

ReceiversAlive ==
  (IF s_cur # "none" THEN 1 ELSE 0) + (IF s_old # "none" THEN 1 ELSE 0)

\* C27: at most one pool connection is open and at most one receiver
\* thread is alive: no connection is dialled and no receiver thread started
\* while the receiver thread of the previous client is alive.
C27_OneConnectionOneReceiver ==
  /\ s_open <= 1
  /\ ReceiversAlive <= 1
  /\ (s_pc \in {"handshake", "mine", "accel_sleep"} => s_old = "none")

\* What mine_with_pool keeps: one open connection at most.
OneConnectionOpen == s_open <= 1


\* ====================================================================
\* SpecReport: the reporting step of the Mining Loop on a clock
\* ====================================================================
MaxClock == 65               \* seconds of monotonic time
HASHRATE_LOG_INTERVAL == 30

otherThanReport ==
  <<minerVars, backoffVars, heapVars, gpuVars, pureVars, accelVars,
    frameVars, lockVars, superVars, proxyVars>>

\* A reporting step that is due one second early.
ReportDue_Early(now, last) == now - last >= HASHRATE_LOG_INTERVAL - 1

\* 'if now - last_log_time >= HASHRATE_LOG_INTERVAL:'
ReportDue(now, last) == now - last >= HASHRATE_LOG_INTERVAL

\* One second of monotonic time passes.
RTick ==
  /\ r_now < MaxClock
  /\ r_now' = r_now + 1
  /\ UNCHANGED <<r_pc, last_log_time, r_times, r_written>>
  /\ UNCHANGED otherThanReport

\* A round gets as far as the reporting step (the accelerator has answered
\* and the status has been written).
RRoundStart ==
  /\ r_pc = "round"
  /\ r_pc' = "report"
  /\ UNCHANGED <<r_now, last_log_time, r_times, r_written>>
  /\ UNCHANGED otherThanReport

\* 'now = time.monotonic(); if now - last_log_time >=
\* HASHRATE_LOG_INTERVAL: ... last_log_time = now;
\* client.report_hashrate(...)'; the message is written unless _send fails.
RReportStep ==
  /\ r_pc = "report"
  /\ r_pc' = "round"
  /\ LET now == r_now IN
     IF ReportDue(now, last_log_time)
     THEN /\ last_log_time' = now
          /\ r_times' = Append(r_times, now)
          /\ \E ok \in BOOLEAN :
               r_written' = IF ok THEN r_written + 1 ELSE r_written
     ELSE UNCHANGED <<last_log_time, r_times, r_written>>
  /\ r_now' = r_now
  /\ UNCHANGED otherThanReport

NextReport == RTick \/ RRoundStart \/ RReportStep

SpecReport == Init /\ [][NextReport]_vars

\* The reporting step of a round.
ReportingStep == r_pc = "report" /\ r_pc' = "round"

C29_ReportStep ==
  /\ (ReportingStep /\ r_now - last_log_time >= HASHRATE_LOG_INTERVAL =>
        /\ Len(r_times') = Len(r_times) + 1
        /\ r_written' \in {r_written, r_written + 1}
        /\ last_log_time' = r_now)
  /\ (ReportingStep /\ r_now - last_log_time < HASHRATE_LOG_INTERVAL =>
        UNCHANGED <<last_log_time, r_times, r_written>>)
  /\ (~ReportingStep => UNCHANGED <<last_log_time, r_times, r_written>>)

\* C29: a round that reaches the reporting step with at least the interval
\* elapsed since the previous report makes one hashrate report (one message
\* written, unless the write fails) and sets the timer to now; a round with
\* less elapsed time makes none; two consecutive reports are at least the
\* interval apart.
C29_ReportEveryInterval ==
  /\ [][C29_ReportStep]_vars
  /\ [](\A k \in 1..Len(r_times) :
          r_times[k] - (IF k = 1 THEN 0 ELSE r_times[k - 1])
             >= HASHRATE_LOG_INTERVAL)
  /\ [](r_written <= Len(r_times))

\* Two reports have been made and written, the second one later than the
\* interval after the first.
C29_Witness ==
  /\ Len(r_times) = 2
  /\ r_written = 2
  /\ r_times[2] - r_times[1] > HASHRATE_LOG_INTERVAL
  /\ r_pc = "round"


\* ====================================================================
\* gpu_pool_miner: the handshake and the ids of the replies
\* ====================================================================
\* The lines taken off the connection hold a reply to the request sent
\* last, with the given result or (Null) with any result.
GRepliedToLast(result) ==
  \E i \in 1..Len(GConsumed) :
     /\ GConsumed[i].kind = "reply"
     /\ GConsumed[i].id = stratum_msg_id
     /\ (result # Null => GConsumed[i].result = result)

\* C30: in gpu_pool_miner's handshake mining.authorize is sent only after
\* the reply to mining.subscribe has been received, and the handshake goes
\* on as authorized only on a reply with the id of the authorize request
\* and result true.
C30_HandshakeRepliesMatched ==
  [][/\ (gpc = "sub_recv" /\ gpc' = "authorize" => GRepliedToLast(Null))
     /\ (gpc = "auth_recv" /\ gpc' \in {"waitjob", "mine"}
           => GRepliedToLast("true"))]_vars

\* The half of it that the code keeps: without a message with result true
\* in the read after mining.authorize the handshake does not go on.
GAuthorizedOnlyOnTrue ==
  [][gpc = "auth_recv" /\ gpc' \in {"waitjob", "mine"}
       => GAuthOk(GConsumed)]_vars


\* ====================================================================
\* SpecProxy: gpu_proxy's accept loop and its handler threads
\* ====================================================================
MaxClients == 2
MaxConns == 2

\* The --allow-ips arguments tried: the option absent (''), one address,
\* and two addresses written with spaces around them. An argument is the
\* list of the pieces between its commas.
AllowArgs ==
  { <<>>,
    << <<"a">> >>,
    << <<"sp", "a">>, <<"b", "sp">> >> }

\* client_addr[0] of the connections that arrive.
ProxyIps == { <<"a">>, <<"b">> }

\* 'allowed_ips = set(); if args.allow_ips: allowed_ips = {ip.strip() for
\* ip in args.allow_ips.split(',')}'.
ParseAllowIps(arg) ==
  IF arg = <<>> THEN {} ELSE {Strip(arg[k]) : k \in 1..Len(arg)}

\* An accept loop without the allow-list check.
Allowed_Any(ip, list) == TRUE

\* The negation of 'allowed_ips and client_ip not in allowed_ips'.
Allowed(ip, list) == list = {} \/ ip \in list

\* An acquire that always succeeds.
TryAcquire_Always(value) == TRUE

\* semaphore.acquire(blocking=False): succeeds iff the value is positive.
TryAcquire(value) == value > 0

\* What a client does with its connection: closes it without a newline,
\* sends more than 65536 bytes without a newline, sends nothing for 30 s,
\* or sends a line that is not JSON, is not UTF-8, is JSON but not an
\* object, or is a JSON object.
ProxyRequests ==
  {"closed", "too_large", "timeout", "invalid_json", "undecodable",
   "not_object", "object"}

\* handle_client on one connection: whether the accelerator is contacted,
\* what is written to the client, and whether an exception leaves
\* handle_client ('finally: client_sock.close()' runs in every case).
\* UnicodeDecodeError is not a json.JSONDecodeError and AttributeError
\* (req.get on a list or a number) is caught nowhere.
HandleClient(req, gpuUp) ==
  CASE req \in {"closed", "too_large", "timeout"} ->
         [forwarded |-> FALSE, reply |-> "none", raised |-> FALSE]
    [] req = "invalid_json" ->
         [forwarded |-> FALSE, reply |-> "invalid JSON", raised |-> FALSE]
    [] req \in {"undecodable", "not_object"} ->
         [forwarded |-> FALSE, reply |-> "none", raised |-> TRUE]
    [] OTHER ->
         [forwarded |-> TRUE,
          reply |-> IF gpuUp THEN "response" ELSE "GPU unavailable",
          raised |-> FALSE]

\* The connections accepted so far, by their number of arrival.
ProxyConns == 1..px_n

otherThanProxy ==
  <<minerVars, backoffVars, heapVars, gpuVars, pureVars, accelVars,
    frameVars, lockVars, superVars, reportVars>>

\* main up to the accept loop: the arguments are parsed, the semaphore is
\* made.
PxArgs ==
  /\ px_pc = "args"
  /\ \E arg \in AllowArgs, m \in 1..MaxClients :
       /\ allowed_ips' = ParseAllowIps(arg)
       /\ max_clients' = m
       /\ semaphore' = m
  /\ px_pc' = "accept"
  /\ UNCHANGED <<active_clients, px_tmp, px_n, px_ip, px_h, px_htmp,
                 px_reply, px_read, px_gpu>>
  /\ UNCHANGED otherThanProxy

\* server.accept() returns a connection; the allow list and the semaphore
\* decide what becomes of it. sent: whether the 'server busy' line could be
\* written (a failure is swallowed by 'except Exception: pass').
PxAccept ==
  /\ px_pc = "accept"
  /\ px_n < MaxConns
  /\ \E ip \in ProxyIps, sent \in BOOLEAN :
       /\ px_n' = px_n + 1
       /\ px_ip' = Append(px_ip, ip)
       /\ px_htmp' = Append(px_htmp, 0)
       /\ IF ~Allowed(ip, allowed_ips)
          THEN /\ px_h' = Append(px_h, "blocked")
               /\ px_reply' = Append(px_reply, "none")
               /\ UNCHANGED <<semaphore, px_pc>>
          ELSE IF ~TryAcquire(semaphore)
          THEN /\ px_h' = Append(px_h, "busy")
               /\ px_reply' =
                    Append(px_reply, IF sent THEN "server busy" ELSE "none")
               /\ UNCHANGED <<semaphore, px_pc>>
          ELSE /\ px_h' = Append(px_h, "slot")
               /\ px_reply' = Append(px_reply, "none")
               /\ semaphore' = semaphore - 1
               /\ px_pc' = "inc"
  /\ UNCHANGED <<allowed_ips, max_clients, active_clients, px_tmp, px_read,
                 px_gpu>>
  /\ UNCHANGED otherThanProxy

\* "stats['active_clients'] += 1" in main: the read of the item.
PxIncRead ==
  /\ px_pc = "inc"
  /\ px_tmp' = active_clients
  /\ px_pc' = "start"
  /\ UNCHANGED <<allowed_ips, max_clients, semaphore, active_clients, px_n,
                 px_ip, px_h, px_htmp, px_reply, px_read, px_gpu>>
  /\ UNCHANGED otherThanProxy

\* The store of "stats['active_clients'] += 1", then the handler thread is
\* made and started.
PxStart ==
  /\ px_pc = "start"
  /\ active_clients' = px_tmp + 1
  /\ px_tmp' = 0
  /\ px_h' = [px_h EXCEPT ![px_n] = "run"]
  /\ px_pc' = "accept"
  /\ UNCHANGED <<allowed_ips, max_clients, semaphore, px_n, px_ip, px_htmp,
                 px_reply, px_read, px_gpu>>
  /\ UNCHANGED otherThanProxy

\* client_thread: handle_client(cs, ca, args.gpu_sock, stats) from its
\* first recv to its return or exception.
PxHandle(i) ==
  /\ px_pc # "stopped"
  /\ px_h[i] = "run"
  /\ \E req \in ProxyRequests, gpuUp \in BOOLEAN :
       /\ px_read' = px_read \cup {i}
       /\ px_gpu' = IF HandleClient(req, gpuUp).forwarded
                    THEN px_gpu \cup {i} ELSE px_gpu
       /\ px_reply' = [px_reply EXCEPT ![i] = HandleClient(req, gpuUp).reply]
  /\ px_h' = [px_h EXCEPT ![i] = "fin"]
  /\ UNCHANGED <<px_pc, allowed_ips, max_clients, semaphore, active_clients,
                 px_tmp, px_n, px_ip, px_htmp>>
  /\ UNCHANGED otherThanProxy

\* client_thread's finally, "stats['active_clients'] -= 1": the read.
PxDecRead(i) ==
  /\ px_pc # "stopped"
  /\ px_h[i] = "fin"
  /\ px_htmp' = [px_htmp EXCEPT ![i] = active_clients]
  /\ px_h' = [px_h EXCEPT ![i] = "dec"]
  /\ UNCHANGED <<px_pc, allowed_ips, max_clients, semaphore, active_clients,
                 px_tmp, px_n, px_ip, px_reply, px_read, px_gpu>>
  /\ UNCHANGED otherThanProxy

\* The store of "stats['active_clients'] -= 1".
PxDecWrite(i) ==
  /\ px_pc # "stopped"
  /\ px_h[i] = "dec"
  /\ active_clients' = px_htmp[i] - 1
  /\ px_htmp' = [px_htmp EXCEPT ![i] = 0]
  /\ px_h' = [px_h EXCEPT ![i] = "rel"]
  /\ UNCHANGED <<px_pc, allowed_ips, max_clients, semaphore, px_tmp, px_n,
                 px_ip, px_reply, px_read, px_gpu>>
  /\ UNCHANGED otherThanProxy

\* client_thread's finally: semaphore.release(); the thread ends.
PxRelease(i) ==
  /\ px_pc # "stopped"
  /\ px_h[i] = "rel"
  /\ semaphore' = semaphore + 1
  /\ px_h' = [px_h EXCEPT ![i] = "done"]
  /\ UNCHANGED <<px_pc, allowed_ips, max_clients, active_clients, px_tmp,
                 px_n, px_ip, px_htmp, px_reply, px_read, px_gpu>>
  /\ UNCHANGED otherThanProxy

\* KeyboardInterrupt in main: the accept loop is left (or main dies of it)
\* and the process ends with its daemon threads.
PxInterrupt ==
  /\ px_pc \in {"accept", "inc", "start"}
  /\ px_pc' = "stopped"
  /\ UNCHANGED <<allowed_ips, max_clients, semaphore, active_clients, px_tmp,
                 px_n, px_ip, px_h, px_htmp, px_reply, px_read, px_gpu>>
  /\ UNCHANGED otherThanProxy

NextProxy ==
  \/ PxArgs
  \/ PxAccept
  \/ PxIncRead
  \/ PxStart
  \/ \E i \in ProxyConns : PxHandle(i)
  \/ \E i \in ProxyConns : PxDecRead(i)
  \/ \E i \in ProxyConns : PxDecWrite(i)
  \/ \E i \in ProxyConns : PxRelease(i)
  \/ PxInterrupt

SpecProxy == Init /\ [][NextProxy]_vars

\* The connections that hold a permit, and those whose handler thread has
\* been started and has not finished.
PermitHolders ==
  {i \in ProxyConns : px_h[i] \in {"slot", "run", "fin", "dec", "rel"}}

RunningHandlers ==
  {i \in ProxyConns : px_h[i] \in {"run", "fin", "dec", "rel"}}

\* The step of the accept loop that gives the new connection the fate f.
Arrives(f) == px_n' = px_n + 1 /\ px_h'[px_n'] = f

\* C31: with a non-empty allow list a connection from an address not in
\* the list is closed without its request being read, without taking a
\* client slot and without the accelerator being contacted; with an empty
\* allow list every address is admitted.
C31_AllowList ==
  /\ [](\A i \in ProxyConns :
          /\ px_h[i] = "blocked" <=>
               (allowed_ips # {} /\ px_ip[i] \notin allowed_ips)
          /\ px_h[i] = "blocked" =>
               i \notin px_read /\ i \notin px_gpu /\ px_reply[i] = "none")
  /\ [][Arrives("blocked") =>
          UNCHANGED <<semaphore, active_clients, px_read, px_gpu, px_pc>>]_vars

\* With the list {a}, a connection from b has been blocked and a later
\* connection from a has been served by the accelerator.
C31_Witness ==
  /\ allowed_ips = { <<"a">> }
  /\ \E i, j \in ProxyConns :
       /\ i < j
       /\ px_h[i] = "blocked"
       /\ px_ip[i] = <<"b">>
       /\ px_h[j] = "done"
       /\ j \in px_gpu
       /\ px_reply[j] = "response"

\* With no allow list both addresses have been served.
AllAdmittedWhenEmpty ==
  /\ allowed_ips = {}
  /\ \E i, j \in ProxyConns :
       px_ip[i] # px_ip[j] /\ i \in px_gpu /\ j \in px_gpu

\* C32: never more than max_clients handlers run at once; a connection
\* arriving while max_clients handlers are active gets the 'server busy'
\* line and is closed without the accelerator being contacted; every
\* started handler releases exactly one permit on every path, so the
\* permits given out and the permits left always add up to max_clients.
C32_ClientLimit ==
  /\ [](px_pc # "args" =>
          /\ semaphore \in 0..max_clients
          /\ semaphore + Cardinality(PermitHolders) = max_clients
          /\ Cardinality(RunningHandlers) <= max_clients)
  /\ [](\A i \in ProxyConns :
          px_h[i] = "busy" =>
            /\ i \notin px_read
            /\ i \notin px_gpu
            /\ px_reply[i] \in {"server busy", "none"})
  /\ [][Arrives("busy") =>
          /\ Cardinality(RunningHandlers) = max_clients
          /\ UNCHANGED <<semaphore, active_clients, px_read, px_gpu,
                         px_pc>>]_vars
  /\ [][Arrives("slot") =>
          Cardinality(RunningHandlers) < max_clients]_vars

\* A connection was turned away with 'server busy' while max_clients
\* handlers ran; a handler that ran then was served by the accelerator and
\* has finished, and every permit has been given back.
C32_Witness ==
  \E i, j \in ProxyConns :
    /\ i # j
    /\ px_h[i] = "busy"
    /\ px_reply[i] = "server busy"
    /\ px_h[j] = "done"
    /\ j \in px_gpu
    /\ semaphore = max_clients

\* No read-modify-write of stats['active_clients'] is under way.
NoCounterUpdateInFlight ==
  /\ px_pc # "start"
  /\ \A i \in ProxyConns : px_h[i] # "dec"

\* The handlers counted: started, and their decrement not yet made.
CountedHandlers == {i \in ProxyConns : px_h[i] \in {"run", "fin"}}

\* C36: after any interleaving of accepts and completions,
\* stats['active_clients'] is the number of handlers started and not yet
\* finished, never negative, never above max_clients, and 0 when no
\* handler runs.
C36_ActiveClientsExact ==
  /\ active_clients >= 0
  /\ active_clients <= max_clients
  /\ NoCounterUpdateInFlight =>
       active_clients = Cardinality(CountedHandlers)

\* ====================================================================
\* pool_miner: shares counted, the receive path, writes after a loss
\* ====================================================================
\* C33: the share counter is incremented only for shares whose
\* mining.submit was written to the pool connection: a failed send does not
\* count as a share.
C33_SharesAreWrittenSubmits ==
  [][total_shares' # total_shares =>
       /\ Len(requests') = Len(requests) + 1
       /\ requests'[Len(requests')].method = "mining.submit"]_vars

\* What the counter does count: the found responses of the accelerator.
SharesAreFoundResponses ==
  [][total_shares' # total_shares =>
       /\ FoundRound
       /\ total_shares' = total_shares + 1]_vars

\* The positions at which mine_with_pool is inside _recv_lines.
MainReceives == pc \in {"sub_recv", "auth_recv", "waitjob"}

\* A step that takes lines off the connection of the session.
ConsumesWire == session' = session /\ Len(wire') < Len(wire)

\* C34: within a session the receive path is used by one thread at a time:
\* by mine_with_pool's thread during subscribe, authorize and the wait for
\* the first job, and by the receiver thread only once it has been started;
\* from then on mine_with_pool does not receive.
C34_OneReaderAtATime ==
  /\ [](recv_alive => ~MainReceives)
  /\ [][ConsumesWire =>
          IF recv_alive
          THEN /\ pc' = pc
               /\ pc \in {"mine", "gpu", "round_end", "top"}
               /\ UNCHANGED <<msg_id, requests, localVars>>
          ELSE MainReceives]_vars

\* The receiver thread has taken a line off a connection from which
\* mine_with_pool had read the handshake replies, while a round waits for
\* the accelerator.
C34_Witness ==
  /\ recv_alive
  /\ pc = "gpu"
  /\ subRet = "ok"
  /\ authRet = "ok"
  /\ current_job # Null
  /\ current_job.job_id = 2
  /\ job.job_id = 1

\* C35: after the receiver has marked the connection lost, the Mining Loop
\* attempts no mining.submit and no mining.hashrate on that connection, not
\* even in the round that was under way.
C35_NoWriteAfterLoss ==
  [][pc = "round_end" /\ ~connected =>
       /\ msg_id' = msg_id
       /\ Len(requests') <= Len(requests)]_vars

\* What the code keeps: no new round is started on a connection marked
\* lost.
NoRoundAfterLoss ==
  [][~connected => rounds' = rounds]_vars

====
